---- MODULE Spec2Model ----
(***************************************************************************)
(* Linked-selection and brushing state machine of the CIA indicator        *)
(* dashboard (src/cia_v1.py), with the multi-dataset variant of the brush  *)
(* handling kept in the older copy of the file (src/unnamed/part_000).     *)
(*                                                                         *)
(* The state is the set of Dash component properties the callbacks read    *)
(* and write: the stores, the control values, the last parallel-           *)
(* coordinates restyle payload and the figures returned by `analytics`.    *)
(* One action is one user event together with the callbacks it triggers.   *)
(***************************************************************************)
EXTENDS Integers, Sequences, FiniteSets, TLC

VARIABLES
    region,                   \* value of the region dropdown
    ind,                      \* value of the indicator dropdown
    scatter_x, scatter_y,     \* values of the scatter axis dropdowns
    topn,                     \* value of the Top-N input
    selected_iso,             \* dcc.Store "selected-iso": last clicked ISO-3
    selected_iso_store,       \* dcc.Store "selected-iso-store": highlighted ISO-3 codes
    highlight_country_names,  \* dcc.Store "highlight-country-names"
    pc_brush,                 \* dcc.Store "pc-brush": axis -> stored range
    pc_restyle,               \* parcoords.restyleData: the last restyle payload
    rank_fig, scatter_fig, parcoords_fig,   \* figures last returned by analytics
    ds, copy_region, copy_brush, copy_relayout,          \* dataset dropdown and brush of the older copy
    click_run,                \* history: the current run of consecutive clicks on one code
    load,                     \* the dataset load loop: its position, inputs and tables
    call                      \* a call of a pure function: its argument and its result

vars == <<region, ind, scatter_x, scatter_y, topn, selected_iso, selected_iso_store,
          highlight_country_names, pc_brush, pc_restyle,
          rank_fig, scatter_fig, parcoords_fig, ds, copy_region, copy_brush, copy_relayout,
          click_run, load, call>>

-----------------------------------------------------------------------------
(* Data: the loaded table.  A row's `vals` record has a field for every    *)
(* indicator whose value is present; a missing value (NaN) is a missing    *)
(* field.                                                                  *)

None == "None"

FIRST_DS == "Energy Analyst"

\* loaded[FIRST_DS]: rows in table order, and the sorted indicator names
loaded ==
    [df |-> << [_country_fixed |-> "United States", iso_alpha |-> "USA",
                continent |-> "North America", vals |-> [A |-> 5, B |-> 10, C |-> 1]],
               [_country_fixed |-> "Canada", iso_alpha |-> "CAN",
                continent |-> "North America", vals |-> [A |-> 5, B |-> 20, C |-> 2]],
               [_country_fixed |-> "France", iso_alpha |-> "FRA",
                continent |-> "Europe", vals |-> [B |-> 10, C |-> 3]],
               [_country_fixed |-> "Germany", iso_alpha |-> "DEU",
                continent |-> "Europe", vals |-> [A |-> 10, B |-> 10, C |-> 4]],
               [_country_fixed |-> "Kosovo", iso_alpha |-> "XKX",
                continent |-> None, vals |-> [A |-> 10, B |-> 10, C |-> 3]] >>,
     num_cols |-> <<"A", "B", "C">>]

Range(s) == {s[i] : i \in DOMAIN s}

ISOS == {r.iso_alpha : r \in Range(loaded.df)}

\* ISO_TO_NAME = dict(zip(REF["iso_alpha"], REF["_country_fixed"]))
ISO_TO_NAME == [i \in ISOS |-> (CHOOSE r \in Range(loaded.df) : r.iso_alpha = i)._country_fixed]

\* CONTINENT_OPTIONS: "All" and the continents of the table, Antarctica left out
CONTINENT_OPTIONS ==
    {"All"} \cup ({r.continent : r \in Range(loaded.df)} \ {None, "Antarctica"})

\* base = df; if region and region != "All": base = base[base["continent"] == region]
RegionFilter(df, reg) ==
    IF reg # None /\ reg # "All"
    THEN SelectSeq(df, LAMBDA r : r.continent = reg)
    ELSE df

\* DataFrame[meta + cols].dropna(): the rows with a value in every one of
\* cols, and a continent when the continent column is among the selected ones
DropNa(df, cols) == SelectSeq(df, LAMBDA r : cols \subseteq DOMAIN r.vals)
DropNaWithContinent(df, cols) ==
    SelectSeq(df, LAMBDA r : cols \subseteq DOMAIN r.vals /\ r.continent # None)

IsoOf(df) == {r.iso_alpha : r \in Range(df)}

-----------------------------------------------------------------------------
(* Country names.  A name is a sequence of characters.                     *)

Lowers == <<"a","b","c","d","e","f","g","h","i","j","k","l","m",
            "n","o","p","q","r","s","t","u","v","w","x","y","z">>
Uppers == <<"A","B","C","D","E","F","G","H","I","J","K","L","M",
            "N","O","P","Q","R","S","T","U","V","W","X","Y","Z">>

IsLower(c) == \E i \in DOMAIN Lowers : Lowers[i] = c
IsUpper(c) == \E i \in DOMAIN Uppers : Uppers[i] = c
IsLetter(c) == IsLower(c) \/ IsUpper(c)
UpperOf(c) == IF IsLower(c) THEN Uppers[CHOOSE i \in DOMAIN Lowers : Lowers[i] = c] ELSE c
LowerOf(c) == IF IsUpper(c) THEN Lowers[CHOOSE i \in DOMAIN Uppers : Uppers[i] = c] ELSE c

\* str.strip(): leading and trailing blanks removed
RECURSIVE lstrip(_)
lstrip(s) == IF s # <<>> /\ Head(s) = " " THEN lstrip(Tail(s)) ELSE s
RECURSIVE rstrip(_)
rstrip(s) == IF s # <<>> /\ s[Len(s)] = " " THEN rstrip(SubSeq(s, 1, Len(s) - 1)) ELSE s
strip(s) == rstrip(lstrip(s))

\* str.upper()
upper(s) == [i \in DOMAIN s |-> UpperOf(s[i])]

\* str.title(): a letter is upper-cased when it starts the string or follows
\* a character that is not a letter, and lower-cased otherwise
title(s) ==
    [i \in DOMAIN s |->
        IF i = 1 \/ ~IsLetter(s[i - 1]) THEN UpperOf(s[i]) ELSE LowerOf(s[i])]

\* Three entries of CIA_NAME_FIXES
BURMA == <<"B","U","R","M","A">>
Myanmar == <<"M","y","a","n","m","a","r">>
IRAN == <<"I","R","A","N">>
Iran == <<"I","r","a","n">>
CZECHIA == <<"C","Z","E","C","H","I","A">>
Czech_Republic == <<"C","z","e","c","h"," ","R","e","p","u","b","l","i","c">>
CIA_NAME_FIXES == (BURMA :> Myanmar) @@ (IRAN :> Iran) @@ (CZECHIA :> Czech_Republic)

\* Variant of harmonize that looks the trimmed name up without upper-casing it
harmonize_NoUpper(raw) ==
    LET x == strip(raw)
    IN  IF x \in DOMAIN CIA_NAME_FIXES THEN CIA_NAME_FIXES[x] ELSE title(upper(x))

\* out["_country_fixed"] = raw_upper.map(lambda x: CIA_NAME_FIXES.get(x, x.title()))
harmonize(raw) ==
    LET x == upper(strip(raw))
    IN  IF x \in DOMAIN CIA_NAME_FIXES THEN CIA_NAME_FIXES[x] ELSE title(x)

-----------------------------------------------------------------------------
(* The dataset load loop.  A source row is a raw country name and the      *)
(* values present after numeric cleaning; a missing value is a missing     *)
(* field of `vals`.                                                        *)

Kosovo == <<"K","o","s","o","v","o">>
Antarctica == <<"A","n","t","a","r","c","t","i","c","a">>
Atlantis == <<"A","t","l","a","n","t","i","s">>

\* GAP: gapminder's country, iso_alpha, continent
GAP == (Iran :> [iso_alpha |-> "IRN", continent |-> "Asia"])
       @@ (Myanmar :> [iso_alpha |-> "MMR", continent |-> "Asia"])

\* lookup_iso: pycountry resolves the name, or NaN
lookup_iso(name) == IF name = Antarctica THEN "ATA" ELSE None

\* iso_overrides
iso_overrides == (Kosovo :> "XKX")

\* iso3_to_cont: the continent pycountry_convert gives, NaN when it raises
iso3_to_cont(i3) ==
    CASE i3 \in {"IRN", "MMR"} -> "Asia"
      [] i3 = "USA" -> "North America"
      [] i3 = "ATA" -> "Antarctica"
      [] OTHER -> None

\* add_iso_and_continent, for one row
add_iso_and_continent(row) ==
    LET fixed == harmonize(row.Country)
        gap_iso == IF fixed \in DOMAIN GAP THEN GAP[fixed].iso_alpha ELSE None
        gap_cont == IF fixed \in DOMAIN GAP THEN GAP[fixed].continent ELSE None
        iso1 == IF gap_iso = None THEN lookup_iso(fixed) ELSE gap_iso
        iso2 == IF fixed \in DOMAIN iso_overrides THEN iso_overrides[fixed] ELSE iso1
    IN  [Country |-> strip(row.Country), _country_fixed |-> fixed,
         iso_alpha |-> iso2,
         continent |-> IF iso2 # None THEN iso3_to_cont(iso2) ELSE gap_cont,
         vals |-> row.vals, Government_Type |-> None]

\* add_iso_and_continent of the older copy: no overrides, the continent is
\* looked up only where gapminder gave none
copy_add_iso_and_continent(row) ==
    LET fixed == harmonize(row.Country)
        gap_iso == IF fixed \in DOMAIN GAP THEN GAP[fixed].iso_alpha ELSE None
        gap_cont == IF fixed \in DOMAIN GAP THEN GAP[fixed].continent ELSE None
        iso1 == IF gap_iso = None THEN lookup_iso(fixed) ELSE gap_iso
    IN  [Country |-> strip(row.Country), _country_fixed |-> fixed,
         iso_alpha |-> iso1,
         continent |-> IF gap_cont = None /\ iso1 # None THEN iso3_to_cont(iso1) ELSE gap_cont,
         vals |-> row.vals, Government_Type |-> None]

\* df = add_iso_and_continent(df): every row of the file, in the program prog
annotate(prog, rows) ==
    [i \in DOMAIN rows |-> IF prog = "cia_v1" THEN add_iso_and_continent(rows[i])
                                              ELSE copy_add_iso_and_continent(rows[i])]

\* df.notna().sum(axis=1): Country, _country_fixed and iso_alpha are present,
\* the continent and each value may be missing
data_count(r) ==
    3 + (IF r.continent # None THEN 1 ELSE 0) + Cardinality(DOMAIN r.vals)

\* drop_duplicates(subset=["iso_alpha"]): the first row of each code is kept
RECURSIVE drop_duplicates(_, _)
drop_duplicates(df, seen) ==
    IF df = <<>> THEN <<>>
    ELSE IF Head(df).iso_alpha \in seen THEN drop_duplicates(Tail(df), seen)
         ELSE <<Head(df)>> \o drop_duplicates(Tail(df), seen \cup {Head(df).iso_alpha})

\* dropna(subset=["iso_alpha"])
dropna_iso(df) == SelectSeq(df, LAMBDA r : r.iso_alpha # None)

\* The orders sort_values("_data_count", ascending=False) can produce: the
\* default sort is not stable, rows with equal counts come in any order
SortedByCount(df) ==
    {[i \in DOMAIN df |-> df[f[i]]] :
        f \in {g \in [DOMAIN df -> DOMAIN df] :
                  /\ \A i, j \in DOMAIN df : i # j => g[i] # g[j]
                  /\ \A i, j \in DOMAIN df :
                        i < j => data_count(df[g[i]]) >= data_count(df[g[j]])}}

\* df.merge(aux, on="_merge_key", how="left") for one table row: one output
\* row per auxiliary row with the same upper-cased name, or the row itself
RECURSIVE Matches(_, _)
Matches(key, aux) ==
    IF aux = <<>> THEN <<>>
    ELSE (IF upper(strip(Head(aux).Country)) = key THEN <<Head(aux)>> ELSE <<>>)
            \o Matches(key, Tail(aux))

WithGeo(r, g) ==
    IF "Area_Total" \in DOMAIN g.vals
    THEN [r EXCEPT !.vals = [c \in DOMAIN r.vals \cup {"Area_Total"} |->
                                IF c = "Area_Total" THEN g.vals[c] ELSE r.vals[c]]]
    ELSE r

WithGov(r, g) == [r EXCEPT !.Government_Type = g.Government_Type]

With(cols, r, g) == IF cols = "geography" THEN WithGeo(r, g) ELSE WithGov(r, g)

RECURSIVE left_merge(_, _, _)
left_merge(df, aux, cols) ==
    IF df = <<>> THEN <<>>
    ELSE LET r == Head(df)
             m == Matches(upper(r.Country), aux)
         IN  (IF m = <<>> THEN <<r>> ELSE [i \in DOMAIN m |-> With(cols, r, m[i])])
                \o left_merge(Tail(df), aux, cols)

-----------------------------------------------------------------------------
(* Click handling                                                          *)

\* The payloads a click can carry, after the per-view extraction of the
\* ISO code: map "location", scatter/pca scalar customdata, rank customdata
\* list.  An absent field or an empty customdata list resolves to None.
ClickViews == {"map", "scatter", "rank", "pca"}

\* iso extracted from the payload of the triggering view
ClickIso(trigger, payload) ==
    CASE trigger = "map"     -> payload.location
      [] trigger = "scatter" -> payload.customdata
      [] trigger = "rank"    -> IF payload.is_list
                                THEN (IF payload.len > 0 THEN payload.customdata ELSE None)
                                ELSE payload.customdata
      [] trigger = "pca"     -> payload.customdata
      [] OTHER               -> None

\* Variant of sync_highlights that never removes a code
sync_highlights_AddOnly(trigger, payload, prev_names, prev_iso) ==
    LET iso == ClickIso(trigger, payload)
        nm  == IF iso \in DOMAIN ISO_TO_NAME THEN ISO_TO_NAME[iso] ELSE None
    IN  IF iso # None
        THEN [names |-> IF nm # None THEN prev_names \cup {nm} ELSE prev_names,
              isos  |-> prev_iso \cup {iso}]
        ELSE [names |-> prev_names, isos |-> prev_iso]

\* Variant of sync_highlights with exclusive selection
sync_highlights_Exclusive(trigger, payload, prev_names, prev_iso) ==
    LET iso == ClickIso(trigger, payload)
        nm  == IF iso \in DOMAIN ISO_TO_NAME THEN ISO_TO_NAME[iso] ELSE None
    IN  IF iso # None
        THEN IF iso \in prev_iso
             THEN [names |-> {}, isos |-> {}]
             ELSE [names |-> IF nm # None THEN {nm} ELSE {}, isos |-> {iso}]
        ELSE [names |-> prev_names, isos |-> prev_iso]

\* Variant of sync_highlights that keeps the name of a code toggled off
sync_highlights_KeepNames(trigger, payload, prev_names, prev_iso) ==
    LET iso == ClickIso(trigger, payload)
        nm  == IF iso \in DOMAIN ISO_TO_NAME THEN ISO_TO_NAME[iso] ELSE None
    IN  IF iso # None
        THEN IF iso \in prev_iso
             THEN [names |-> prev_names, isos |-> prev_iso \ {iso}]
             ELSE [names |-> IF nm # None THEN prev_names \cup {nm} ELSE prev_names,
                   isos  |-> prev_iso \cup {iso}]
        ELSE [names |-> prev_names, isos |-> prev_iso]

\* sync_highlights: toggle iso in the two stores
sync_highlights(trigger, payload, prev_names, prev_iso) ==
    LET iso == ClickIso(trigger, payload)
        nm  == IF iso \in DOMAIN ISO_TO_NAME THEN ISO_TO_NAME[iso] ELSE None
    IN  IF iso # None
        THEN IF iso \in prev_iso
             THEN [names |-> IF nm \in prev_names THEN prev_names \ {nm} ELSE prev_names,
                   isos  |-> prev_iso \ {iso}]
             ELSE [names |-> IF nm # None THEN prev_names \cup {nm} ELSE prev_names,
                   isos  |-> prev_iso \cup {iso}]
        ELSE [names |-> prev_names, isos |-> prev_iso]

\* update_selected_iso: the clicked iso (None when the payload has none)
update_selected_iso(trigger, payload) == ClickIso(trigger, payload)

-----------------------------------------------------------------------------
(* Parallel-coordinates brush payloads                                     *)

\* use_cols = [c for c in num_cols if c != "iso_alpha"]
use_cols == SelectSeq(loaded.num_cols, LAMBDA c : c # "iso_alpha")

\* The [lo, hi] ranges a drag can produce in the model
Ranges == {<<0, 10>>, <<5, 15>>}

\* No restyle received yet (restyleData is None)
NoRestyle == [key |-> "none", idx |-> 0, shape |-> "none", lo |-> 0, hi |-> 0]

\* A restyle payload {key: v}: `key` tells whether the key names a
\* dimensions[idx].constraintrange, `shape` is the shape of v:
\*   "null"     v = None                      (brush cleared)
\*   "empty"    v = []                        (brush cleared)
\*   "flat"     v = [lo, hi]
\*   "wrapped"  v = [[lo, hi]]
\*   "multi"    v = [[[lo, hi], [lo2, hi2]]]  (several ranges on one axis)
\*   "long"     v = [[lo, hi, x]]               (a list of another length)
\*   "text"     v = [["a", "b"]]                (entries that are no numbers)
\*   "scalar"   v is not a list
Payload(key, idx, shape, r) == [key |-> key, idx |-> idx, shape |-> shape, lo |-> r[1], hi |-> r[2]]

\* The axes (0-based dimension indices) dragged in the model
DraggedAxes == {0, 1}

RestylePayloads ==
    {Payload("constraintrange", 0, "wrapped", r) : r \in Ranges}
    \cup {Payload("constraintrange", i, "null", <<0, 0>>) : i \in DraggedAxes}
    \cup {Payload("constraintrange", 1, "wrapped", <<5, 15>>),
          Payload("constraintrange", 0, "multi", <<0, 0>>),
          Payload("constraintrange", 0, "empty", <<0, 0>>),
          Payload("constraintrange", 0, "flat", <<0, 10>>),
          Payload("constraintrange", Len(use_cols), "wrapped", <<0, 10>>),
          Payload("constraintrange", 0, "scalar", <<0, 0>>),
          Payload("other", 0, "wrapped", <<0, 10>>)}

\* Values stored in the brush mapping: "pair" is a list of two numbers,
\* "pairs" a list of two lists.
Pair(lo, hi) == [shape |-> "pair", lo |-> lo, hi |-> hi]
Pairs == [shape |-> "pairs", lo |-> 0, hi |-> 0]
\* "long" is a list of three numbers, "text" a list of two strings
Long == [shape |-> "long", lo |-> 0, hi |-> 0]
Text == [shape |-> "text", lo |-> 0, hi |-> 0]

EmptyBrush == [c \in {} |-> Pairs]
Put(f, k, v) == [c \in DOMAIN f \cup {k} |-> IF c = k THEN v ELSE f[c]]
Del(f, k) == [c \in DOMAIN f \ {k} |-> f[c]]

\* isinstance(rng, list) and len(rng) == 2
IsLen2List(v) == v.shape \in {"pair", "pairs", "text"}

\* float(rng[0]), float(rng[1]) succeed
FloatOk(v) == v.shape = "pair"

\* Variant of ParseBrush in which clearing one axis clears every axis and
\* setting one axis replaces the mapping
ParseBrush_Whole(brush_state, restyle) ==
    IF restyle = NoRestyle THEN brush_state
    ELSE IF restyle.key # "constraintrange" THEN brush_state
    ELSE IF ~(0 <= restyle.idx /\ restyle.idx < Len(use_cols)) THEN brush_state
    ELSE LET col_name == use_cols[restyle.idx + 1]
         IN  CASE restyle.shape \in {"null", "empty"} -> EmptyBrush
               [] restyle.shape \in {"flat", "wrapped"} ->
                      Put(EmptyBrush, col_name, Pair(restyle.lo, restyle.hi))
               [] restyle.shape = "multi" -> Put(brush_state, col_name, Pairs)
               [] restyle.shape = "long" -> Put(brush_state, col_name, Long)
               [] restyle.shape = "text" -> Put(brush_state, col_name, Text)
               [] OTHER -> brush_state

\* The loop over restyle_dict.items() that updates new_brush_state
ParseBrush(brush_state, restyle) ==
    IF restyle = NoRestyle THEN brush_state
    ELSE IF restyle.key # "constraintrange" THEN brush_state
    ELSE IF ~(0 <= restyle.idx /\ restyle.idx < Len(use_cols)) THEN brush_state
    ELSE LET col_name == use_cols[restyle.idx + 1]
         IN  CASE restyle.shape \in {"null", "empty"} -> Del(brush_state, col_name)
               [] restyle.shape \in {"flat", "wrapped"} ->
                      Put(brush_state, col_name, Pair(restyle.lo, restyle.hi))
               [] restyle.shape = "multi" -> Put(brush_state, col_name, Pairs)
               [] restyle.shape = "long" -> Put(brush_state, col_name, Long)
               [] restyle.shape = "text" -> Put(brush_state, col_name, Text)
               [] OTHER -> brush_state

-----------------------------------------------------------------------------
(* analytics: rank, scatter, parallel coordinates and the brush store      *)

Max(a, b) == IF a > b THEN a ELSE b
Min(a, b) == IF a < b THEN a ELSE b

\* topn = max(3, min(50, int(topn or 10))); a missing input is 0 here
ClampTopN(t) == Max(3, Min(50, IF t = 0 THEN 10 ELSE t))

\* A value of the Top-N property as the callback can receive it: None, an
\* integer, a float (num halves, so 7 is 3.5 and 8 is 4.0) or a string
TopNNone == [kind |-> "none"]
TopNInt(v) == [kind |-> "int", v |-> v]
TopNFloat(num) == [kind |-> "float", num |-> num]
TopNStr(s) == [kind |-> "str", s |-> s]

\* "topn or 10": None, 0, 0.0 and "" are false
Falsy(x) ==
    \/ x.kind = "none"
    \/ x.kind = "int" /\ x.v = 0
    \/ x.kind = "float" /\ x.num = 0
    \/ x.kind = "str" /\ x.s = ""

\* int(s) of a string: the decimal strings of the model have a value, any
\* other string raises ValueError
IntLiterals == ("7" :> 7) @@ ("100" :> 100) @@ (" 2 " :> 2)

\* int(x) of a float truncates towards zero
Trunc(num) == IF num >= 0 THEN num \div 2 ELSE 0 - ((0 - num) \div 2)

\* int(topn or 10): the integer, or the ValueError of int()
int_topn(x) ==
    IF Falsy(x) THEN [raised |-> FALSE, v |-> 10]
    ELSE CASE x.kind = "int"   -> [raised |-> FALSE, v |-> x.v]
           [] x.kind = "float" -> [raised |-> FALSE, v |-> Trunc(x.num)]
           [] x.kind = "str"   -> IF x.s \in DOMAIN IntLiterals
                                  THEN [raised |-> FALSE, v |-> IntLiterals[x.s]]
                                  ELSE [raised |-> TRUE, v |-> 0]

\* sort_values(col, ascending=False): insertion into a descending sequence,
\* rows with equal values keep their table order
RECURSIVE InsertDesc(_, _, _)
InsertDesc(sorted, r, col) ==
    IF sorted = <<>> THEN <<r>>
    ELSE IF Head(sorted).vals[col] >= r.vals[col]
         THEN <<Head(sorted)>> \o InsertDesc(Tail(sorted), r, col)
         ELSE <<r>> \o sorted

RECURSIVE SortDesc(_, _)
SortDesc(df, col) ==
    IF df = <<>> THEN <<>>
    ELSE InsertDesc(SortDesc(SubSeq(df, 1, Len(df) - 1), col), df[Len(df)], col)

\* DataFrame.head(n)
HeadN(df, n) == SubSeq(df, 1, Min(n, Len(df)))

\* sel_names = {ISO_TO_NAME[i] for i in sel_iso if i in ISO_TO_NAME}
SelNames(sel_iso) == {ISO_TO_NAME[i] : i \in sel_iso \cap DOMAIN ISO_TO_NAME}

\* Variant of the rank figure without sort_values
RankFigure_Unsorted(base, indicator, n, sel_names) ==
    LET bar_df == HeadN(DropNa(base, {indicator}), ClampTopN(n))
    IN  [rows   |-> [i \in DOMAIN bar_df |-> bar_df[i].iso_alpha],
         is_sel |-> {r.iso_alpha : r \in {x \in Range(bar_df) : x._country_fixed \in sel_names}}]

\* The rank figure: bars in order, and the bars coloured as selected
RankFigure(base, indicator, n, sel_names) ==
    LET bar_df == HeadN(SortDesc(DropNa(base, {indicator}), indicator), ClampTopN(n))
    IN  [rows   |-> [i \in DOMAIN bar_df |-> bar_df[i].iso_alpha],
         is_sel |-> {r.iso_alpha : r \in {x \in Range(bar_df) : x._country_fixed \in sel_names}}]

\* The scatter figure: points, and the points drawn as selected
ScatterFigure(base, sx, sy, sel_names) ==
    IF sx # None /\ sy # None /\ sx \in Range(loaded.num_cols) /\ sy \in Range(loaded.num_cols)
    THEN LET df_all == DropNa(base, {sx, sy})
         IN  [rows   |-> IsoOf(df_all),
              is_sel |-> {r.iso_alpha : r \in {x \in Range(df_all) : x._country_fixed \in sel_names}}]
    ELSE [rows |-> {}, is_sel |-> {}]

\* The empty figure go.Figure()
EmptyParcoords == [has_dims |-> FALSE, rows |-> {}, color |-> {}, constraintrange |-> EmptyBrush]

\* The parallel-coordinates figure: lines (complete rows only), the lines
\* coloured as selected, and the constraint ranges restored on the axes
ParcoordsFigure(base, sel_set, brush_state) ==
    IF Len(use_cols) >= 2
    THEN LET sub == DropNa(base, Range(use_cols))
         IN  IF sub # <<>>
             THEN [has_dims |-> TRUE,
                   rows  |-> IsoOf(sub),
                   color |-> IsoOf(sub) \cap sel_set,
                   constraintrange |->
                       [c \in {k \in DOMAIN brush_state : IsLen2List(brush_state[k])}
                           |-> brush_state[c]]]
             ELSE EmptyParcoords
    ELSE EmptyParcoords

\* Variant of BrushedMask that keeps a row passing any one constraint
BrushedMask_Any(sub, brush_state) ==
    {r.iso_alpha : r \in {x \in Range(sub) :
        \E col \in DOMAIN brush_state :
            IsLen2List(brush_state[col]) =>
                /\ col \in DOMAIN x.vals
                /\ x.vals[col] >= brush_state[col].lo
                /\ x.vals[col] <= brush_state[col].hi}}

\* brushed_mask &= (sub[col] >= lo) & (sub[col] <= hi), for every stored range
BrushedMask(sub, brush_state) ==
    {r.iso_alpha : r \in {x \in Range(sub) :
        \A col \in DOMAIN brush_state :
            IsLen2List(brush_state[col]) =>
                /\ col \in DOMAIN x.vals
                /\ x.vals[col] >= brush_state[col].lo
                /\ x.vals[col] <= brush_state[col].hi}}

\* The mask loop of analytics raises when float() is applied to a list
AnalyticsRaises(base, brush_state) ==
    /\ Len(use_cols) >= 2
    /\ DropNa(base, Range(use_cols)) # <<>>
    /\ \E col \in DOMAIN brush_state :
           IsLen2List(brush_state[col]) /\ ~FloatOk(brush_state[col])

\* brush_names: the countries of sub passing the mask, capped, when the
\* mask is not all-false and a range is stored
BrushNames(base, brush_state) ==
    IF Len(use_cols) >= 2 /\ DropNa(base, Range(use_cols)) # <<>>
    THEN LET sub == DropNa(base, Range(use_cols))
             mask == BrushedMask(sub, brush_state)
         IN  IF mask # {} /\ DOMAIN brush_state # {}
             THEN IsoOf(HeadN(SelectSeq(sub, LAMBDA r : r.iso_alpha \in mask), 40))
             ELSE {}
    ELSE {}

\* any(x in trigger_id for x in inputs); no trigger on the initial call
Builds(trigger_id, inputs) == trigger_id = None \/ trigger_id \in inputs

rank_inputs == {"ind", "topn", "region", "selected-iso", "selected-iso-store"}
scatter_inputs == {"scatter-x", "scatter-y", "region", "selected-iso", "selected-iso-store"}

\* Variant of analytics that clears the stored ranges before the restyle
\* payload is parsed instead of after
analytics_ResetFirst(trigger_id, indicator, reg, n, sx, sy, restyle, store, brush_state) ==
    IF indicator = None
    THEN [raised |-> FALSE,
          build_rank |-> TRUE, rank |-> [rows |-> <<>>, is_sel |-> {}],
          build_scatter |-> TRUE, scatter |-> [rows |-> {}, is_sel |-> {}],
          parcoords |-> EmptyParcoords, brush_names |-> {}, brush |-> EmptyBrush]
    ELSE LET base == RegionFilter(loaded.df, reg)
             sel_names == SelNames(store)
             new_brush_state ==
                 ParseBrush(IF trigger_id = "reset-parcoords" THEN EmptyBrush ELSE brush_state,
                            restyle)
         IN  [raised    |-> AnalyticsRaises(base, new_brush_state),
              build_rank    |-> Builds(trigger_id, rank_inputs),
              rank          |-> RankFigure(base, indicator, n, sel_names),
              build_scatter |-> Builds(trigger_id, scatter_inputs),
              scatter       |-> ScatterFigure(base, sx, sy, sel_names),
              parcoords |-> ParcoordsFigure(base, store, new_brush_state),
              brush_names |-> BrushNames(base, new_brush_state),
              brush     |-> new_brush_state]

\* analytics(...): the returned outputs; build_rank / build_scatter FALSE
\* stand for no_update, raised = TRUE for a callback that fails, in which
\* case no output is written
analytics(trigger_id, indicator, reg, n, sx, sy, restyle, store, brush_state) ==
    IF indicator = None
    THEN [raised |-> FALSE,
          build_rank |-> TRUE, rank |-> [rows |-> <<>>, is_sel |-> {}],
          build_scatter |-> TRUE, scatter |-> [rows |-> {}, is_sel |-> {}],
          parcoords |-> EmptyParcoords, brush_names |-> {}, brush |-> EmptyBrush]
    ELSE LET base == RegionFilter(loaded.df, reg)
             sel_names == SelNames(store)
             parsed == ParseBrush(brush_state, restyle)
             new_brush_state == IF trigger_id = "reset-parcoords" THEN EmptyBrush ELSE parsed
         IN  [raised    |-> AnalyticsRaises(base, new_brush_state),
              build_rank    |-> Builds(trigger_id, rank_inputs),
              rank          |-> RankFigure(base, indicator, n, sel_names),
              build_scatter |-> Builds(trigger_id, scatter_inputs),
              scatter       |-> ScatterFigure(base, sx, sy, sel_names),
              parcoords |-> ParcoordsFigure(base, store, new_brush_state),
              brush_names |-> BrushNames(base, new_brush_state),
              brush     |-> new_brush_state]

-----------------------------------------------------------------------------
(* Views recomputed from the stores on every change of their inputs        *)

\* render_map: the countries drawn, and the highlight overlay
render_map(indicator, reg, selected) ==
    IF indicator = None THEN [rows |-> {}, sel |-> {}]
    ELSE LET df == RegionFilter(loaded.df, reg)
         IN  [rows |-> IsoOf(df), sel |-> {iso \in selected : iso \in IsoOf(df)}]

\* update_corr_matrix: the rows the correlation is computed over
update_corr_matrix(reg) == IsoOf(RegionFilter(loaded.df, reg))

\* Columns of X with a positive variance: at least two different values
VariantCols(base, cols) ==
    {c \in cols : \E r1, r2 \in Range(base) :
        /\ c \in DOMAIN r1.vals /\ c \in DOMAIN r2.vals
        /\ r1.vals[c] # r2.vals[c]}

\* int(np.sqrt(n) // 1): the integer part of the square root
floor_sqrt(n) == CHOOSE r \in 0..n : r * r <= n /\ n < (r + 1) * (r + 1)

\* k = min(5, max(2, int(np.sqrt(len(base))//1)))
n_clusters(n) == Min(5, Max(2, floor_sqrt(n)))

PCA_OK == "ok"
NOT_ENOUGH_DATA == "Not enough numeric data for PCA"
NOT_ENOUGH_VARIANCE == "Not enough variance for PCA"

\* The body of pca_view on the rows of the region: the placeholder title when
\* there is not enough data, else the points drawn, the points outlined as
\* selected and the number of clusters
pca_core(base, table_num_cols, selected, pca_params) ==
    LET num_cols == IF pca_params # {} THEN pca_params \cap table_num_cols
                    ELSE table_num_cols
    IN  IF Cardinality(num_cols) < 3 \/ Len(base) < 3
        THEN [title |-> NOT_ENOUGH_DATA, rows |-> {}, sel |-> {}, k |-> 0]
        ELSE IF Cardinality(VariantCols(base, num_cols)) < 2 \/ Len(base) < 3
             THEN [title |-> NOT_ENOUGH_VARIANCE, rows |-> {}, sel |-> {}, k |-> 0]
             ELSE [title |-> PCA_OK, rows |-> IsoOf(base),
                   sel |-> IsoOf(base) \cap selected, k |-> n_clusters(Len(base))]

\* pca_view: the points drawn and the points outlined as selected; no point
\* at all when there is not enough data
pca_view(reg, selected, pca_params) ==
    LET out == pca_core(RegionFilter(loaded.df, reg), Range(loaded.num_cols),
                        selected, pca_params)
    IN  [rows |-> out.rows, sel |-> out.sel]

\* The columns kept for the projection, in table order: those of num_cols
\* with a positive variance
RetainedCols(base, table_cols, num_cols) ==
    SelectSeq(table_cols, LAMBDA c : c \in VariantCols(base, num_cols))

RECURSIVE SumSeq(_)
SumSeq(sq) == IF sq = <<>> THEN 0 ELSE Head(sq) + SumSeq(Tail(sq))

\* Z: the two coordinates of every row.  The singular value decomposition is
\* numeric library code; it is represented by a fixed function of the values
\* of the retained columns of the row (their sum, and the first minus the last)
svd_project(base, cols) ==
    [p \in DOMAIN base |->
        << SumSeq([j \in DOMAIN cols |-> base[p].vals[cols[j]]]),
           base[p].vals[cols[1]] - base[p].vals[cols[Len(cols)]] >>]

\* np.random.default_rng(seed).choice(n, size=k, replace=False): k different
\* indices drawn by a generator whose state is seed; the generator is library
\* code, represented by consecutive indices from seed modulo n
rng_choice(seed, n, k) == [i \in 0..(k - 1) |-> (seed + i) % n]

SEED == 42

\* Variant of kmeans_init that draws from the process-wide generator
kmeans_init_GlobalRng(np_state, Z, k) ==
    LET idx == rng_choice(np_state, Len(Z), k)
    IN  [i \in 0..(k - 1) |-> [x |-> Z[idx[i] + 1][1], y |-> Z[idx[i] + 1][2], n |-> 1]]

\* rng = np.random.default_rng(42); centroids = Z[rng.choice(len(Z), size=k,
\* replace=False)].  np_state is the state of the process-wide generator,
\* which is not read.  A centroid is the point (x / n, y / n)
kmeans_init(np_state, Z, k) ==
    LET idx == rng_choice(SEED, Len(Z), k)
    IN  [i \in 0..(k - 1) |-> [x |-> Z[idx[i] + 1][1], y |-> Z[idx[i] + 1][2], n |-> 1]]

\* d2 of point z to centroid c, times c.n squared
Dist2(z, c) == (z[1] * c.n - c.x) * (z[1] * c.n - c.x) + (z[2] * c.n - c.y) * (z[2] * c.n - c.y)
Closer(z, c1, c2) == Dist2(z, c1) * c2.n * c2.n < Dist2(z, c2) * c1.n * c1.n

\* labels = d2.argmin(axis=1): the first of the nearest centroids
ArgMin(z, centroids) ==
    CHOOSE i \in DOMAIN centroids :
        \A j \in DOMAIN centroids :
            /\ j < i => Closer(z, centroids[i], centroids[j])
            /\ j > i => ~Closer(z, centroids[j], centroids[i])

\* Z[labels == i].mean(axis=0) if (labels == i).any() else centroids[i]
new_centroids(Z, labels, centroids) ==
    [i \in DOMAIN centroids |->
        LET members == SelectSeq([p \in DOMAIN Z |-> p], LAMBDA p : labels[p] = i)
        IN  IF members = <<>> THEN centroids[i]
            ELSE [x |-> SumSeq([m \in DOMAIN members |-> Z[members[m]][1]]),
                  y |-> SumSeq([m \in DOMAIN members |-> Z[members[m]][2]]),
                  n |-> Len(members)]]

\* np.allclose(new_centroids, centroids)
SameCentroids(a, b) ==
    \A i \in DOMAIN a : a[i].x * b[i].n = b[i].x * a[i].n /\ a[i].y * b[i].n = b[i].y * a[i].n

\* for _ in range(8): assign, recompute, stop when the centroids are stable
RECURSIVE lloyd(_, _, _)
lloyd(Z, centroids, rounds) ==
    LET labels == [p \in DOMAIN Z |-> ArgMin(Z[p], centroids)]
        nc == new_centroids(Z, labels, centroids)
    IN  IF rounds = 1 \/ SameCentroids(nc, centroids) THEN labels
        ELSE lloyd(Z, nc, rounds - 1)

\* KMeans(n_clusters=k, n_init=10, random_state=42).fit(X.values).labels_:
\* library code working on the retained columns; represented by the same
\* iteration on the first two of them, started from the seed of the call
sklearn_KMeans(base, cols, k, random_state) ==
    LET X == [p \in DOMAIN base |-> <<base[p].vals[cols[1]], base[p].vals[cols[2]]>>]
        idx == rng_choice(random_state, Len(X), k)
    IN  lloyd(X, [i \in 0..(k - 1) |-> [x |-> X[idx[i] + 1][1], y |-> X[idx[i] + 1][2], n |-> 1]], 8)

\* The figure of pca_view: its title, the points (iso, PC1, PC2) in row
\* order, the cluster of every point and the points outlined as selected
pca_figure(base, table_cols, selected, pca_params, use_sklearn, np_state) ==
    LET core == pca_core(base, Range(table_cols), selected, pca_params)
        num_cols == IF pca_params # {} THEN pca_params \cap Range(table_cols)
                    ELSE Range(table_cols)
        cols == RetainedCols(base, table_cols, num_cols)
        Z == svd_project(base, cols)
    IN  IF core.title # PCA_OK
        THEN [title |-> core.title, points |-> <<>>, cluster |-> <<>>, sel |-> {}]
        ELSE [title |-> PCA_OK,
              points |-> [p \in DOMAIN base |-> <<base[p].iso_alpha, Z[p][1], Z[p][2]>>],
              cluster |-> IF use_sklearn THEN sklearn_KMeans(base, cols, core.k, SEED)
                          ELSE lloyd(Z, kmeans_init(np_state, Z, core.k), 8),
              sel |-> core.sel]

\* update_pca_params: default selection, the first 8 numeric columns
update_pca_params(reg) == Range(SubSeq(loaded.num_cols, 1, Min(8, Len(loaded.num_cols))))

\* Rows of the linked table are capped
TableCap == 40

\* Variant of update_countries_tab without the test that a range is stored
update_countries_tab_NoGuard(last_iso, store, brush_state, reg) ==
    LET base == RegionFilter(loaded.df, reg)
        sel_rows == {r._country_fixed : r \in {x \in Range(base) : x.iso_alpha \in store}}
        sub == DropNaWithContinent(base, Range(use_cols))
        usable == [c \in {k \in DOMAIN brush_state :
                            IsLen2List(brush_state[k]) /\ FloatOk(brush_state[k])}
                      |-> brush_state[c]]
        mask == BrushedMask(sub, usable)
        shown == sub # <<>> /\ mask # {}
        brushed_df == HeadN(SelectSeq(sub, LAMBDA r : r.iso_alpha \in mask), TableCap)
    IN  [selected    |-> sel_rows,
         table_shown |-> shown,
         table_rows  |-> IF shown THEN IsoOf(brushed_df) ELSE {},
         table_sel   |-> IF shown THEN IsoOf(brushed_df) \cap store ELSE {},
         prompt      |-> sel_rows = {} /\ ~shown]

\* update_countries_tab: the selected names shown, the linked table of
\* brushed countries (shown or not, its rows, its rows marked selected) and
\* whether the "No country selected ..." prompt is the only content
update_countries_tab(last_iso, store, brush_state, reg) ==
    LET base == RegionFilter(loaded.df, reg)
        sel_rows == {r._country_fixed : r \in {x \in Range(base) : x.iso_alpha \in store}}
        sub == DropNaWithContinent(base, Range(use_cols))
        usable == [c \in {k \in DOMAIN brush_state :
                            IsLen2List(brush_state[k]) /\ FloatOk(brush_state[k])}
                      |-> brush_state[c]]
        mask == BrushedMask(sub, usable)
        shown == DOMAIN brush_state # {} /\ sub # <<>> /\ mask # {}
        brushed_df == HeadN(SelectSeq(sub, LAMBDA r : r.iso_alpha \in mask), TableCap)
    IN  [selected    |-> sel_rows,
         table_shown |-> shown,
         table_rows  |-> IF shown THEN IsoOf(brushed_df) ELSE {},
         table_sel   |-> IF shown THEN IsoOf(brushed_df) \cap store ELSE {},
         prompt      |-> sel_rows = {} /\ ~shown]

-----------------------------------------------------------------------------
(* Control values                                                          *)

\* set_indicators: keeps the current choices when they are columns of the
\* table, else falls back to the first columns
set_indicators(ind_cur, x_cur, y_cur) ==
    LET cols == loaded.num_cols
        in_cols(c) == c \in Range(cols)
        x == IF in_cols(x_cur) THEN x_cur ELSE (IF Len(cols) > 0 THEN cols[1] ELSE None)
        y == IF in_cols(y_cur) /\ y_cur # x THEN y_cur
             ELSE (IF Len(cols) > 1 THEN cols[2] ELSE (IF Len(cols) > 0 THEN cols[1] ELSE None))
    IN  [ind |-> IF in_cols(ind_cur) THEN ind_cur ELSE (IF Len(cols) > 0 THEN cols[1] ELSE None),
         x |-> x, y |-> y]

\* Values the user picks in the model
ClickedIsos == {"USA", "FRA"}
IndChoices == {"A", "B"}
ScatterChoices == {"A", "B"}
TopNInputs == {0, 2}

-----------------------------------------------------------------------------
(* Events.  Every event writes the property it changes and then runs the   *)
(* callbacks that have this property as Input; the views above are         *)
(* recomputed from the new state.                                          *)

\* Outputs of one run of analytics written to the state; nothing is written
\* when the callback raised
RunAnalytics(trigger_id, indicator, reg, n, sx, sy, restyle, store) ==
    LET out == analytics(trigger_id, indicator, reg, n, sx, sy, restyle, store, pc_brush)
    IN  IF out.raised
        THEN UNCHANGED <<pc_brush, rank_fig, scatter_fig, parcoords_fig>>
        ELSE /\ pc_brush' = out.brush
             /\ rank_fig' = IF out.build_rank THEN out.rank ELSE rank_fig
             /\ scatter_fig' = IF out.build_scatter THEN out.scatter ELSE scatter_fig
             /\ parcoords_fig' = out.parcoords

CopyVarsUnchanged == UNCHANGED <<ds, copy_region, copy_brush, copy_relayout>>
CopyUnchanged == CopyVarsUnchanged /\ UNCHANGED <<load, call>>

\* Points of the figure a click can land on
ViewPoints(view) ==
    CASE view = "map"     -> render_map(ind, region, selected_iso_store).rows
      [] view = "scatter" -> scatter_fig.rows
      [] view = "rank"    -> Range(rank_fig.rows)
      [] view = "pca"     -> pca_view(region, selected_iso_store, update_pca_params(region)).rows

\* clickData of a point: the map carries the code as location, the rank
\* bars as a one-element customdata list, scatter and pca as customdata
ClickData(view, iso) ==
    [location |-> IF view = "map" THEN iso ELSE None,
     customdata |-> IF view = "map" THEN None ELSE iso,
     is_list |-> (view = "rank"),
     len |-> IF view = "rank" /\ iso # None THEN 1 ELSE 0]

\* A click on a point of a view (iso = None: a payload without the code)
Click(view, iso) ==
    /\ iso \in ViewPoints(view) \cup {None}
    /\ LET payload == ClickData(view, iso)
           out == sync_highlights(view, payload, highlight_country_names, selected_iso_store)
       IN  /\ highlight_country_names' = out.names
           /\ selected_iso_store' = out.isos
           /\ selected_iso' = update_selected_iso(view, payload)
           /\ RunAnalytics("selected-iso", ind, region, topn, scatter_x, scatter_y,
                           pc_restyle, out.isos)
    /\ UNCHANGED <<region, ind, scatter_x, scatter_y, topn, pc_restyle>>
    /\ CopyUnchanged

\* The region dropdown changes
RegionChange(reg) ==
    /\ reg # region
    /\ region' = reg
    /\ LET s == set_indicators(ind, scatter_x, scatter_y)
       IN  /\ ind' = s.ind
           /\ scatter_x' = s.x
           /\ scatter_y' = s.y
           /\ RunAnalytics("region", s.ind, reg, topn, s.x, s.y, pc_restyle, selected_iso_store)
    /\ UNCHANGED <<topn, selected_iso, selected_iso_store, highlight_country_names, pc_restyle>>
    /\ CopyUnchanged

\* The indicator dropdown changes
IndChange(c) ==
    /\ c # ind
    /\ ind' = c
    /\ RunAnalytics("ind", c, region, topn, scatter_x, scatter_y, pc_restyle, selected_iso_store)
    /\ UNCHANGED <<region, scatter_x, scatter_y, topn, selected_iso, selected_iso_store,
                   highlight_country_names, pc_restyle>>
    /\ CopyUnchanged

\* A scatter axis dropdown changes
ScatterXChange(c) ==
    /\ c # scatter_x
    /\ scatter_x' = c
    /\ RunAnalytics("scatter-x", ind, region, topn, c, scatter_y, pc_restyle, selected_iso_store)
    /\ UNCHANGED <<region, ind, scatter_y, topn, selected_iso, selected_iso_store,
                   highlight_country_names, pc_restyle>>
    /\ CopyUnchanged

ScatterYChange(c) ==
    /\ c # scatter_y
    /\ scatter_y' = c
    /\ RunAnalytics("scatter-y", ind, region, topn, scatter_x, c, pc_restyle, selected_iso_store)
    /\ UNCHANGED <<region, ind, scatter_x, topn, selected_iso, selected_iso_store,
                   highlight_country_names, pc_restyle>>
    /\ CopyUnchanged

\* The Top-N input changes
TopNChange(n) ==
    /\ n # topn
    /\ topn' = n
    /\ RunAnalytics("topn", ind, region, n, scatter_x, scatter_y, pc_restyle, selected_iso_store)
    /\ UNCHANGED <<region, ind, scatter_x, scatter_y, selected_iso, selected_iso_store,
                   highlight_country_names, pc_restyle>>
    /\ CopyUnchanged

\* An axis of the parallel-coordinates plot is dragged or its brush cleared
Restyle(p) ==
    /\ parcoords_fig.has_dims
    /\ pc_restyle' = p
    /\ RunAnalytics("parcoords", ind, region, topn, scatter_x, scatter_y, p, selected_iso_store)
    /\ UNCHANGED <<region, ind, scatter_x, scatter_y, topn, selected_iso, selected_iso_store,
                   highlight_country_names>>
    /\ CopyUnchanged

\* The reset button is pressed
Reset ==
    /\ RunAnalytics("reset-parcoords", ind, region, topn, scatter_x, scatter_y,
                    pc_restyle, selected_iso_store)
    /\ UNCHANGED <<region, ind, scatter_x, scatter_y, topn, selected_iso, selected_iso_store,
                   highlight_country_names, pc_restyle>>
    /\ CopyUnchanged

\* History of clicks: the code clicked by the last events, how many
\* consecutive click events resolved to it (1 or 2), and the highlighted set
\* before the first of them
NoRun == [iso |-> None, n |-> 0, store0 |-> {}]

RecordClick(iso) ==
    click_run' = IF iso = None THEN NoRun
                 ELSE IF click_run.iso = iso /\ click_run.n = 1
                      THEN [click_run EXCEPT !.n = 2]
                      ELSE [iso |-> iso, n |-> 1, store0 |-> selected_iso_store]

ForgetClicks == click_run' = NoRun

------------------------------------------------------------------------
\* The older copy of the dashboard (part_000): several datasets behind a
\* dataset dropdown.  Only the path of its analytics callback that reads and
\* writes the pc-brush store is modelled.

\* Two of the DATASETS of the copy; "Energy" has the table of loaded
COPY_DATASETS == {"Energy", "Economy"}

\* loaded[name] = {"df": df, "num_cols": num_cols} of the copy
copy_loaded ==
    [d \in COPY_DATASETS |->
        IF d = "Energy" THEN loaded
        ELSE [df |-> << [_country_fixed |-> "United States", iso_alpha |-> "USA",
                         continent |-> "North America", vals |-> [G |-> 1, H |-> 2]],
                        [_country_fixed |-> "France", iso_alpha |-> "FRA",
                         continent |-> "Europe", vals |-> [H |-> 3]],
                        [_country_fixed |-> "Germany", iso_alpha |-> "DEU",
                         continent |-> "Europe", vals |-> [G |-> 3, H |-> 4]] >>,
              num_cols |-> <<"G", "H">>]]

\* FIRST_DS of the copy: the first key of loaded
COPY_FIRST_DS == "Energy"

\* use_cols = [c for c in num_cols if c != "iso_alpha"][:12]
copy_use_cols(d) ==
    SubSeq(copy_loaded[d].num_cols, 1, Min(12, Len(copy_loaded[d].num_cols)))

\* sub = base[["_country_fixed", "iso_alpha"] + use_cols].dropna()
copy_sub(d, reg) ==
    DropNa(RegionFilter(copy_loaded[d].df, reg), Range(copy_use_cols(d)))

\* Values of relayoutData the copy receives: a range on an axis, null on an
\* axis, a range on the third axis (present in one dataset only)
CopyRelayouts ==
    {Payload("constraintrange", i, "flat", <<0, 10>>) : i \in {0, 1, 2}}
        \cup {Payload("constraintrange", 0, "null", <<0, 0>>)}

\* The value v of a relayout entry as it is stored: a [lo, hi] list, or None
CopyStored(relayout) ==
    IF relayout.shape = "flat" THEN Pair(relayout.lo, relayout.hi)
    ELSE [shape |-> "null", lo |-> 0, hi |-> 0]

\* for k, v in pc_relayout.items(): new_brush_state[use_cols[idx]] = v
copy_parse(d, brush_state, relayout) ==
    IF relayout = NoRestyle THEN brush_state
    ELSE IF ~(0 <= relayout.idx /\ relayout.idx < Len(copy_use_cols(d))) THEN brush_state
    ELSE Put(brush_state, copy_use_cols(d)[relayout.idx + 1], CopyStored(relayout))

\* analytics of the copy, its pc-brush output: raised when sub[col] is read
\* for a key that is not a column of sub
copy_analytics(trigger_id, d, reg, relayout, brush_state) ==
    IF Len(copy_use_cols(d)) >= 2 /\ copy_sub(d, reg) # <<>>
    THEN LET parsed == copy_parse(d, brush_state, relayout)
             new_brush_state == IF trigger_id = "reset-parcoords" THEN EmptyBrush ELSE parsed
         IN  [raised |-> \E col \in DOMAIN new_brush_state :
                             /\ IsLen2List(new_brush_state[col])
                             /\ col \notin Range(copy_use_cols(d)),
              brush  |-> new_brush_state]
    ELSE [raised |-> FALSE, brush |-> brush_state]

\* The callback run: an exception leaves the pc-brush store as it was
CopyRunAnalytics(trigger_id, d, reg, relayout) ==
    LET out == copy_analytics(trigger_id, d, reg, relayout, copy_brush)
    IN  copy_brush' = IF out.raised THEN copy_brush ELSE out.brush

MainVarsUnchanged ==
    UNCHANGED <<region, ind, scatter_x, scatter_y, topn, selected_iso, selected_iso_store,
                highlight_country_names, pc_brush, pc_restyle, rank_fig, scatter_fig,
                parcoords_fig, click_run>>
MainUnchanged == MainVarsUnchanged /\ UNCHANGED <<load, call>>

\* The dataset dropdown of the copy changes
CopyDsChange(d) ==
    /\ d # ds
    /\ ds' = d
    /\ CopyRunAnalytics("ds", d, copy_region, copy_relayout)
    /\ UNCHANGED <<copy_region, copy_relayout>>
    /\ MainUnchanged

\* The region dropdown of the copy changes
CopyRegionChange(reg) ==
    /\ reg # copy_region
    /\ copy_region' = reg
    /\ CopyRunAnalytics("region", ds, reg, copy_relayout)
    /\ UNCHANGED <<ds, copy_relayout>>
    /\ MainUnchanged

\* An axis of the parallel-coordinates figure of the copy is dragged
CopyRelayout(p) ==
    /\ Len(copy_use_cols(ds)) >= 2 /\ copy_sub(ds, copy_region) # <<>>
    /\ copy_relayout' = p
    /\ CopyRunAnalytics("parcoords", ds, copy_region, p)
    /\ UNCHANGED <<ds, copy_region>>
    /\ MainUnchanged

\* The reset button of the copy is pressed
CopyReset ==
    /\ CopyRunAnalytics("reset-parcoords", ds, copy_region, copy_relayout)
    /\ UNCHANGED <<ds, copy_region, copy_relayout>>
    /\ MainUnchanged

\* Figures and controls of the dashboard that the copy's click events leave alone
CopyClickRest ==
    /\ UNCHANGED <<region, ind, scatter_x, scatter_y, topn, pc_brush, pc_restyle,
                   rank_fig, scatter_fig, parcoords_fig, click_run>>
    /\ UNCHANGED <<ds, copy_region, copy_relayout, load, call>>

\* Points of the map and of the scatter plot of the copy
CopyPoints == IsoOf(RegionFilter(copy_loaded[ds].df, copy_region))

\* A click on the map of the copy: its sync_highlights toggles the code,
\* its update_selected_iso stores the location, analytics runs on the stores
CopyMapClick(iso) ==
    /\ iso \in CopyPoints \cup {None}
    /\ LET out == sync_highlights("map", ClickData("map", iso),
                                  highlight_country_names, selected_iso_store)
       IN  /\ highlight_country_names' = out.names
           /\ selected_iso_store' = out.isos
    /\ selected_iso' = iso
    /\ CopyRunAnalytics("selected-iso", ds, copy_region, copy_relayout)
    /\ CopyClickRest

\* A click on the scatter plot of the copy: only update_selected_iso listens
\* (it resolves the hover text to the code, and returns no_update without one)
CopyScatterClick(iso) ==
    /\ iso \in CopyPoints \cup {None}
    /\ IF iso # None
       THEN /\ selected_iso' = iso
            /\ CopyRunAnalytics("selected-iso", ds, copy_region, copy_relayout)
       ELSE UNCHANGED <<selected_iso, copy_brush>>
    /\ UNCHANGED <<highlight_country_names, selected_iso_store>>
    /\ CopyClickRest

\* The state after the layout is built and the initial callbacks have run
InitDash ==
    LET s == set_indicators(None, None, None)
        out == analytics(None, s.ind, "All", 10, s.x, s.y, NoRestyle, {}, EmptyBrush)
    IN  /\ region = "All"
        /\ ind = s.ind
        /\ scatter_x = s.x
        /\ scatter_y = s.y
        /\ topn = 0
        /\ selected_iso = None
        /\ selected_iso_store = {}
        /\ highlight_country_names = {}
        /\ pc_brush = out.brush
        /\ pc_restyle = NoRestyle
        /\ rank_fig = out.rank
        /\ scatter_fig = out.scatter
        /\ parcoords_fig = out.parcoords
        /\ ds = COPY_FIRST_DS
        /\ copy_region = "All"
        /\ copy_brush = EmptyBrush
        /\ copy_relayout = NoRestyle
        /\ click_run = NoRun

\* No load in progress, no function call pending
IdleLoad == [pc |-> "idle"]
NoCall == [fn |-> "none"]

Init == InitDash /\ load = IdleLoad /\ call = NoCall

Next ==
    \/ \E view \in ClickViews, iso \in ClickedIsos \cup {None} :
          Click(view, iso) /\ UNCHANGED click_run
    \/ \E reg \in CONTINENT_OPTIONS : RegionChange(reg) /\ UNCHANGED click_run
    \/ \E p \in RestylePayloads : Restyle(p) /\ UNCHANGED click_run
    \/ Reset /\ UNCHANGED click_run

Spec == Init /\ [][Next]_vars

\* The same events with the click history recorded, and fewer drag payloads
ClickSpecPayloads ==
    {Payload("constraintrange", 0, "wrapped", <<0, 10>>),
     Payload("constraintrange", 0, "multi", <<0, 0>>)}

NextClicks ==
    \/ \E view \in ClickViews, iso \in ClickedIsos \cup {None} :
          Click(view, iso) /\ RecordClick(iso)
    \/ \E reg \in CONTINENT_OPTIONS : RegionChange(reg) /\ ForgetClicks
    \/ \E p \in ClickSpecPayloads : Restyle(p) /\ ForgetClicks
    \/ Reset /\ ForgetClicks

SpecClicks == Init /\ [][NextClicks]_vars

\* One click with its callbacks run one at a time.  The click changes the
\* clickData of a figure, an Input of sync_highlights and of
\* update_selected_iso; every store one of them writes is an Input of
\* analytics, which is run after each write, in any order with the callback
\* still waiting.  `call` holds the click in flight: its payload, the
\* callbacks still to run and the stores when it arrived.
NoClickInFlight == IF call.fn = "click" THEN call.pending = {} ELSE TRUE

\* The stores after the callbacks of a click ran in the order of their
\* declaration: sync_highlights, update_selected_iso, analytics
SerialClick(view, payload) ==
    LET out == sync_highlights(view, payload, highlight_country_names, selected_iso_store)
        a   == analytics("selected-iso", ind, region, topn, scatter_x, scatter_y,
                         pc_restyle, out.isos, pc_brush)
    IN  [isos  |-> out.isos,
         iso   |-> update_selected_iso(view, payload),
         brush |-> IF a.raised THEN pc_brush ELSE a.brush]

ClickArrives(view, iso) ==
    /\ NoClickInFlight
    /\ iso \in ViewPoints(view) \cup {None}
    /\ call' = [fn |-> "click", view |-> view, iso |-> iso,
                payload |-> ClickData(view, iso),
                pending |-> {"sync_highlights", "update_selected_iso"},
                serial |-> SerialClick(view, ClickData(view, iso)),
                isos0 |-> selected_iso_store, brush0 |-> pc_brush]
    /\ UNCHANGED <<region, ind, scatter_x, scatter_y, topn, selected_iso, selected_iso_store,
                   highlight_country_names, pc_brush, pc_restyle,
                   rank_fig, scatter_fig, parcoords_fig, load>>
    /\ CopyVarsUnchanged

RunSyncHighlights ==
    /\ call.fn = "click" /\ "sync_highlights" \in call.pending
    /\ LET out == sync_highlights(call.view, call.payload,
                                  highlight_country_names, selected_iso_store)
       IN  /\ highlight_country_names' = out.names
           /\ selected_iso_store' = out.isos
    /\ call' = [call EXCEPT !.pending = (@ \ {"sync_highlights"}) \cup {"analytics"}]
    /\ UNCHANGED <<region, ind, scatter_x, scatter_y, topn, selected_iso, pc_brush, pc_restyle,
                   rank_fig, scatter_fig, parcoords_fig, load>>
    /\ CopyVarsUnchanged

RunUpdateSelectedIso ==
    /\ call.fn = "click" /\ "update_selected_iso" \in call.pending
    /\ selected_iso' = update_selected_iso(call.view, call.payload)
    /\ call' = [call EXCEPT !.pending = (@ \ {"update_selected_iso"}) \cup {"analytics"}]
    /\ UNCHANGED <<region, ind, scatter_x, scatter_y, topn, selected_iso_store,
                   highlight_country_names, pc_brush, pc_restyle,
                   rank_fig, scatter_fig, parcoords_fig, load>>
    /\ CopyVarsUnchanged

RunAnalyticsCallback ==
    /\ call.fn = "click" /\ "analytics" \in call.pending
    /\ RunAnalytics(IF "sync_highlights" \in call.pending
                    THEN "selected-iso" ELSE "selected-iso-store",
                    ind, region, topn, scatter_x, scatter_y, pc_restyle, selected_iso_store)
    /\ call' = [call EXCEPT !.pending = @ \ {"analytics"}]
    /\ UNCHANGED <<region, ind, scatter_x, scatter_y, topn, selected_iso, selected_iso_store,
                   highlight_country_names, pc_restyle, load>>
    /\ CopyVarsUnchanged

OrderPayloads ==
    {Payload("constraintrange", 0, "wrapped", <<0, 10>>),
     Payload("constraintrange", 1, "wrapped", <<5, 15>>),
     Payload("constraintrange", 0, "multi", <<0, 0>>)}

NextOrder ==
    \/ \E view \in ClickViews, iso \in ClickedIsos \cup {None} :
          ClickArrives(view, iso) /\ UNCHANGED click_run
    \/ RunSyncHighlights /\ UNCHANGED click_run
    \/ RunUpdateSelectedIso /\ UNCHANGED click_run
    \/ RunAnalyticsCallback /\ UNCHANGED click_run
    \/ \E p \in OrderPayloads : NoClickInFlight /\ Restyle(p) /\ UNCHANGED click_run
    \/ NoClickInFlight /\ Reset /\ UNCHANGED click_run

SpecOrder == Init /\ [][NextOrder]_vars

\* Drags with a payload of every shape, with resets, region changes and clicks
ShapePayloads ==
    {Payload("constraintrange", 0, sh, <<0, 10>>) :
        sh \in {"null", "wrapped", "multi", "long", "text", "scalar"}}
    \cup {Payload("constraintrange", 1, "wrapped", <<5, 15>>),
          Payload("constraintrange", Len(use_cols), "wrapped", <<0, 10>>)}

NextShapes ==
    \/ \E p \in ShapePayloads : Restyle(p) /\ UNCHANGED click_run
    \/ \E reg \in CONTINENT_OPTIONS : RegionChange(reg) /\ UNCHANGED click_run
    \/ Click("map", "USA") /\ UNCHANGED click_run
    \/ Reset /\ UNCHANGED click_run

SpecShapes == Init /\ [][NextShapes]_vars

\* The events of the controls together with clicks, drags and reset
ControlPayloads ==
    {Payload("constraintrange", 0, "wrapped", <<0, 10>>),
     Payload("constraintrange", 0, "null", <<0, 0>>),
     Payload("constraintrange", 1, "wrapped", <<5, 15>>)}

NextControls ==
    \/ \E iso \in ClickedIsos : Click("map", iso) /\ UNCHANGED click_run
    \/ \E reg \in CONTINENT_OPTIONS : RegionChange(reg) /\ UNCHANGED click_run
    \/ \E c \in IndChoices : IndChange(c) /\ UNCHANGED click_run
    \/ \E c \in ScatterChoices : ScatterXChange(c) /\ UNCHANGED click_run
    \/ \E c \in ScatterChoices : ScatterYChange(c) /\ UNCHANGED click_run
    \/ \E n \in TopNInputs : TopNChange(n) /\ UNCHANGED click_run
    \/ \E p \in ControlPayloads : Restyle(p) /\ UNCHANGED click_run
    \/ Reset /\ UNCHANGED click_run

SpecControls == Init /\ [][NextControls]_vars

-----------------------------------------------------------------------------
(* Claims                                                                  *)

\* XOR of a set with one element
Toggle(H, c) == IF c \in H THEN H \ {c} ELSE H \cup {c}

\* C1: two consecutive click events on the same ISO-3 code, from any views
\* and with no other event between them, leave the highlighted set as it was
\* before the first click.
C1_ToggleRoundTrip ==
    click_run.n = 2 => selected_iso_store = click_run.store0

\* C1 witness: USA was clicked twice in a row while FRA stayed highlighted
C1_Witness ==
    /\ click_run.n = 2
    /\ click_run.iso = "USA"
    /\ click_run.store0 = {"FRA"}
    /\ selected_iso_store = {"FRA"}

\* C2: a click resolving to code c changes the membership of exactly c in
\* the highlighted set and leaves every other member unchanged; a click
\* resolving to no code leaves the set unchanged.
C2_ClickTogglesExactlyOne ==
    [][\A view \in ClickViews, iso \in ClickedIsos \cup {None} :
          Click(view, iso) =>
              IF iso = None
              THEN selected_iso_store' = selected_iso_store
              ELSE selected_iso_store' = Toggle(selected_iso_store, iso)]_vars

\* C2 witness: two countries highlighted at once, the last click being on FRA
C2_Witness ==
    /\ selected_iso_store = {"USA", "FRA"}
    /\ selected_iso = "FRA"

\* C3: a reset event empties the brush mapping whatever it held, also when
\* a drag payload is still present as input, and leaves the highlighted set
\* as it was.
C3_ResetClearsBrushOnly ==
    [][Reset => /\ pc_brush' = EmptyBrush
                /\ selected_iso_store' = selected_iso_store
                /\ highlight_country_names' = highlight_country_names]_vars

\* C3 witness: the brush is empty although the last drag payload set a range
\* on axis 0 (only a reset leaves this state), with a country highlighted
C3_Witness ==
    /\ pc_brush = EmptyBrush
    /\ pc_restyle = Payload("constraintrange", 0, "wrapped", <<0, 10>>)
    /\ selected_iso_store = {"USA"}

NextCopy ==
    \/ \E d \in COPY_DATASETS : CopyDsChange(d)
    \/ \E reg \in CONTINENT_OPTIONS : CopyRegionChange(reg)
    \/ \E p \in CopyRelayouts : CopyRelayout(p)
    \/ CopyReset
    \/ \E iso \in ClickedIsos \cup {None} : CopyMapClick(iso)
    \/ \E iso \in ClickedIsos \cup {None} : CopyScatterClick(iso)

SpecCopy == Init /\ [][NextCopy]_vars

-----------------------------------------------------------------------------
(* The dataset load loop as a state machine: `load.todo` are the datasets  *)
(* still to read, `load.df` the table being built, `load.loaded` the       *)
(* dictionary `loaded`.                                                    *)

DATASETS == <<"Energy Analyst">>
COPY_DATASETS_ORDER == <<"Energy", "Economy">>

United_States == <<"U","n","i","t","e","d"," ","S","t","a","t","e","s">>

\* The placeholder stored when nothing was loaded
Demo ==
    [df |-> << [Country |-> United_States, _country_fixed |-> United_States,
                iso_alpha |-> "USA", continent |-> "North America",
                vals |-> [Value |-> 1], Government_Type |-> None] >>,
     num_cols |-> <<"Value">>]

\* Raw names of source rows: two spellings of one country, a territory
\* without continent, Antarctica, and a name nothing resolves
iran_ == <<"i","r","a","n"," ">>
SrcNames == {IRAN, iran_, Kosovo, Antarctica, Atlantis}
SrcVals == {[c \in {} |-> 0], [X |-> 1], [X |-> 2, Y |-> 3]}
SrcRows == {[Country |-> n, vals |-> v] : n \in SrcNames, v \in SrcVals}
MaxRows == 2
SrcTables == UNION {[1..n -> SrcRows] : n \in 0..MaxRows}

\* A source file: present or not, and its rows
NoFile == [exists |-> FALSE, rows |-> <<>>]
File(rows) == [exists |-> TRUE, rows |-> rows]
SrcFiles == {NoFile} \cup {File(t) : t \in SrcTables}

\* The geography file: absent, empty, one row for Iran, two rows for Iran,
\* a row for a country the table does not have
GeoRow(n, area) == [Country |-> n, vals |-> [Area_Total |-> area]]
GeoFiles ==
    {NoFile, File(<<>>), File(<<GeoRow(Iran, 100)>>),
     File(<<GeoRow(Iran, 100), GeoRow(IRAN, 200)>>),
     File(<<GeoRow(Myanmar, 300)>>)}

\* The government file: absent, with a Government_Type column, without it
GovFile(has_col) ==
    [exists |-> TRUE, has_col |-> has_col,
     rows |-> <<[Country |-> Iran, Government_Type |-> "theocratic republic"]>>]
GovFiles == {[exists |-> FALSE, has_col |-> FALSE, rows |-> <<>>], GovFile(TRUE), GovFile(FALSE)}

\* Names of the rows without ISO code, without repetition
MissingIso(df) == {r.Country : r \in {x \in Range(df) : x.iso_alpha = None}}

LoadRest == MainVarsUnchanged /\ CopyVarsUnchanged /\ UNCHANGED call

\* pd.read_csv(path) raises FileNotFoundError: the dataset is skipped
LoadSkipMissing ==
    /\ load.pc = "next" /\ load.todo # <<>>
    /\ ~load.files[Head(load.todo)].exists
    /\ load' = [load EXCEPT !.todo = Tail(load.todo),
                            !.missing = load.missing \cup {Head(load.todo)}]
    /\ LoadRest

\* read_csv, add_iso_and_continent, and the warning about missing codes
LoadRead ==
    /\ load.pc = "next" /\ load.todo # <<>>
    /\ load.files[Head(load.todo)].exists
    /\ LET name == Head(load.todo)
           df == annotate(load.prog, load.files[name].rows)
       IN  load' = [load EXCEPT !.pc = "read", !.name = name, !.todo = Tail(load.todo),
                                !.df = df,
                                !.warned = IF load.prog = "cia_v1" /\ MissingIso(df) # {}
                                           THEN Put(load.warned, name, Cardinality(MissingIso(df)))
                                           ELSE load.warned]
    /\ LoadRest

\* dropna, sort by _data_count, drop_duplicates, column selection
LoadDedup ==
    /\ load.pc = "read" /\ load.prog = "cia_v1"
    /\ \E sorted \in SortedByCount(dropna_iso(load.df)) :
          load' = [load EXCEPT !.pc = "deduped", !.df = drop_duplicates(sorted, {})]
    /\ LoadRest

\* The older copy: dropna(subset=["iso_alpha"]).drop_duplicates(subset=["iso_alpha"])
LoadCopyDedup ==
    /\ load.pc = "read" /\ load.prog = "copy"
    /\ load' = [load EXCEPT !.pc = "merged",
                            !.df = drop_duplicates(dropna_iso(load.df), {})]
    /\ LoadRest

\* if geo_path.exists(): left merge of the geography columns
LoadMergeGeography ==
    /\ load.pc = "deduped"
    /\ load' = [load EXCEPT !.pc = "geo",
                            !.df = IF load.geo.exists
                                   THEN left_merge(load.df, load.geo.rows, "geography")
                                   ELSE load.df]
    /\ LoadRest

\* if gov_path.exists(): left merge of Government_Type
LoadMergeGovernment ==
    /\ load.pc = "geo"
    /\ load' = [load EXCEPT !.pc = "merged",
                            !.df = IF load.gov.exists /\ load.gov.has_col
                                   THEN left_merge(load.df, load.gov.rows, "government")
                                   ELSE load.df]
    /\ LoadRest

\* loaded[name] = {"df": df, "num_cols": num_cols}
LoadStore ==
    /\ load.pc = "merged"
    /\ LET num_cols == IF load.prog = "cia_v1" /\ load.geo.exists
                       THEN <<"Area_Total", "X", "Y">> ELSE <<"X", "Y">>
       IN  load' = [load EXCEPT !.pc = "next",
                                !.loaded = Put(load.loaded, load.name,
                                               [df |-> load.df, num_cols |-> num_cols])]
    /\ LoadRest

\* Variant of LoadFinish that stores no placeholder
LoadFinish_NoPlaceholder ==
    /\ load.pc = "next" /\ load.todo = <<>>
    /\ load' = [load EXCEPT !.pc = "done"]
    /\ LoadRest

\* if not loaded: loaded["Demo"] = ...
LoadFinish ==
    /\ load.pc = "next" /\ load.todo = <<>>
    /\ load' = [load EXCEPT !.pc = "done",
                            !.loaded = IF DOMAIN load.loaded = {}
                                       THEN Put(load.loaded, "Demo", Demo)
                                       ELSE load.loaded]
    /\ LoadRest

StartLoad(prog, todo, files, geo, gov) ==
    [pc |-> "next", prog |-> prog, todo |-> todo, files |-> files, geo |-> geo, gov |-> gov,
     name |-> None, df |-> <<>>, loaded |-> [d \in {} |-> Demo],
     warned |-> [d \in {} |-> 0], missing |-> {}]

InitLoad ==
    /\ InitDash /\ call = NoCall
    /\ \E f \in SrcFiles, g \in GeoFiles, v \in GovFiles :
          load = StartLoad("cia_v1", DATASETS, [d \in Range(DATASETS) |-> f], g, v)

NextLoad ==
    \/ LoadSkipMissing
    \/ LoadRead
    \/ LoadDedup
    \/ LoadMergeGeography
    \/ LoadMergeGovernment
    \/ LoadStore
    \/ LoadFinish

SpecLoad == InitLoad /\ [][NextLoad]_vars

\* The load loop of the older copy, over two datasets with at most one or
\* two rows each
CopySrcFiles ==
    {NoFile} \cup {File(t) : t \in UNION {[1..n -> {r \in SrcRows : r.Country \in {IRAN, iran_, Atlantis}}] : n \in 1..MaxRows}}

InitCopyLoad ==
    /\ InitDash /\ call = NoCall
    /\ \E f1 \in CopySrcFiles, f2 \in {NoFile, File(<<[Country |-> BURMA, vals |-> [X |-> 1]]>>)} :
          load = StartLoad("copy", COPY_DATASETS_ORDER,
                           [d \in Range(COPY_DATASETS_ORDER) |-> IF d = "Energy" THEN f1 ELSE f2],
                           NoFile, [exists |-> FALSE, has_col |-> FALSE, rows |-> <<>>])

NextCopyLoad ==
    \/ LoadSkipMissing
    \/ LoadRead
    \/ LoadCopyDedup
    \/ LoadStore
    \/ LoadFinish

SpecCopyLoad == InitCopyLoad /\ [][NextCopyLoad]_vars

-----------------------------------------------------------------------------
(* Harmonization of one raw name, as a function call.                      *)

\* Raw names: every string of at most MaxNameLen characters over a small
\* alphabet, and spellings of names of the fix table
NameChars == {"a", "b", "B", " "}
MaxNameLen == 3
burma_ == <<" ","b","u","r","m","a">>
Czechia == <<"C","z","e","c","h","i","a">>
RawNames ==
    UNION {[1..n -> NameChars] : n \in 0..MaxNameLen}
        \cup {BURMA, burma_, IRAN, iran_, Czechia, Kosovo, United_States}

CallRest == MainVarsUnchanged /\ CopyVarsUnchanged /\ UNCHANGED load

\* One row's name goes through the harmonization of add_iso_and_continent
Harmonize ==
    /\ call.fn = "harmonize" /\ ~call.done
    /\ call' = [call EXCEPT !.done = TRUE, !.out = harmonize(call.arg)]
    /\ CallRest

InitNames ==
    /\ InitDash /\ load = IdleLoad
    /\ \E r \in RawNames : call = [fn |-> "harmonize", arg |-> r, done |-> FALSE, out |-> <<>>]

NextNames == Harmonize

SpecNames == InitNames /\ [][NextNames]_vars

-----------------------------------------------------------------------------
(* The rank branch of analytics, as a function call on a table, an         *)
(* indicator and a value of the Top-N property.                            *)

\* A table of three countries with one indicator
RankExample ==
    << [_country_fixed |-> "United States", iso_alpha |-> "USA",
        continent |-> "North America", vals |-> [X |-> 10]],
       [_country_fixed |-> "Canada", iso_alpha |-> "CAN",
        continent |-> "North America", vals |-> [X |-> 20]],
       [_country_fixed |-> "Mexico", iso_alpha |-> "MEX",
        continent |-> "North America", vals |-> [X |-> 30]] >>

RankTables ==
    { [df |-> RankExample, ind |-> "X"],
      [df |-> loaded.df, ind |-> "A"],
      [df |-> loaded.df, ind |-> "C"] }

\* Integer inputs range from -TopNBelowZero to MaxTopNInput
TopNBelowZero == 2
MaxTopNInput == 52

RankTopNInputs ==
    {TopNNone}
        \cup {TopNInt(v) : v \in (0 - TopNBelowZero)..MaxTopNInput}
        \cup {TopNFloat(k) : k \in (0 - 2 * TopNBelowZero)..(2 * MaxTopNInput)}
        \cup {TopNStr(t) : t \in {"", "7", "100", " 2 ", "abc", "7.5"}}

\* if build_rank: topn = max(3, min(50, int(topn or 10))); bar_df = ...
\* An exception of int() leaves the callback without a figure
Rank ==
    /\ call.fn = "rank" /\ ~call.done
    /\ LET i == int_topn(call.topn)
           n == Max(3, Min(50, i.v))
       IN  call' = IF i.raised
                   THEN [call EXCEPT !.done = TRUE, !.raised = TRUE]
                   ELSE [call EXCEPT !.done = TRUE, !.n = n,
                                     !.out = RankFigure(call.df, call.ind, n, {}).rows]
    /\ CallRest

InitRank ==
    /\ InitDash /\ load = IdleLoad
    /\ \E t \in RankTables, x \in RankTopNInputs :
          call = [fn |-> "rank", df |-> t.df, ind |-> t.ind, topn |-> x,
                  done |-> FALSE, raised |-> FALSE, n |-> 0, out |-> <<>>]

NextRank == Rank

SpecRank == InitRank /\ [][NextRank]_vars

-----------------------------------------------------------------------------
(* pca_view as a function call on a table and a selection of parameters.   *)

\* Rows of the generated tables, by position
PcaIsos ==
    << "AAA", "AAB", "AAC", "AAD", "AAE", "AAF", "AAG", "AAH", "AAI", "AAJ",
       "AAK", "AAL", "AAM", "AAN", "AAO", "AAP", "AAQ", "AAR", "AAS", "AAT",
       "AAU", "AAV", "AAW", "AAX", "AAY", "AAZ" >>
MaxPcaRows == Len(PcaIsos)

\* Columns of the generated tables: V1, V2, V3 take a different value in
\* every row, K1 is constant, S1 has a value in the first row only and N1
\* has no value at all
PcaCols == {"V1", "V2", "V3", "K1", "S1", "N1"}
PcaOffset == ("V1" :> 0) @@ ("V2" :> 100) @@ ("V3" :> 200)

PcaRow(i, cols) ==
    LET filled == {c \in cols : c \in {"V1", "V2", "V3", "K1"} \/ (c = "S1" /\ i = 1)}
    IN  [_country_fixed |-> PcaIsos[i], iso_alpha |-> PcaIsos[i], continent |-> "Europe",
         vals |-> [c \in filled |-> IF c \in DOMAIN PcaOffset THEN PcaOffset[c] + i ELSE 1]]

PcaTable(n, cols) == [i \in 1..n |-> PcaRow(i, cols)]

\* pca_view computes its figure
PcaView ==
    /\ call.fn = "pca" /\ ~call.done
    /\ call' = [call EXCEPT !.done = TRUE,
                            !.out = pca_core(call.base, call.num_cols, {}, call.pca_params)]
    /\ CallRest

InitPca ==
    /\ InitDash /\ load = IdleLoad
    /\ \E n \in 0..MaxPcaRows, cols \in SUBSET PcaCols :
          \E params \in SUBSET cols :
             call = [fn |-> "pca", base |-> PcaTable(n, cols), num_cols |-> cols,
                     pca_params |-> params, done |-> FALSE,
                     out |-> [title |-> "", rows |-> {}, sel |-> {}, k |-> 0]]

NextPca == PcaView

SpecPca == InitPca /\ [][NextPca]_vars

-----------------------------------------------------------------------------
(* Repeated runs of pca_view on one table: between the runs the selection  *)
(* and the state of the process-wide random generator change.              *)

\* Tables without missing values: three indicators and a constant column
DetValue(c, i) ==
    CASE c = "V1" -> i
      [] c = "V2" -> (i * i) % 5
      [] c = "V3" -> (2 * i) % 3
      [] OTHER    -> 1

DetCols == <<"K1", "V1", "V2", "V3">>

DetTable(n) ==
    [i \in 1..n |->
        [_country_fixed |-> PcaIsos[i], iso_alpha |-> PcaIsos[i], continent |-> "Europe",
         vals |-> [c \in Range(DetCols) |-> DetValue(c, i)]]]

MinDetRows == 2
MaxDetRows == 6
MaxRuns == 3
NpStates == 0..2
DetSelections == {{}, {"AAA"}, {"AAB", "AAC"}}
DetParams == {{}, {"V1", "V2", "V3"}, {"K1", "V1", "V3"}}

\* pca_view runs once more, on a change of the selection
PcaRerun ==
    /\ call.fn = "pca_runs" /\ Len(call.runs) < MaxRuns
    /\ \E sel \in DetSelections, g \in NpStates :
          call' = [call EXCEPT
                     !.selected = sel,
                     !.np_state = g,
                     !.runs = Append(@, pca_figure(call.base, DetCols, sel, call.pca_params,
                                                   call.use_sklearn, g))]
    /\ CallRest

InitDet ==
    /\ InitDash /\ load = IdleLoad
    /\ \E n \in MinDetRows..MaxDetRows, params \in DetParams, sk \in BOOLEAN :
          call = [fn |-> "pca_runs", base |-> DetTable(n), pca_params |-> params,
                  use_sklearn |-> sk, np_state |-> 0, selected |-> {}, runs |-> <<>>]

NextDet == PcaRerun

SpecDet == InitDet /\ [][NextDet]_vars

\* The views of the current state
Tab == update_countries_tab(selected_iso, selected_iso_store, pc_brush, region)
Base == RegionFilter(loaded.df, region)
RowOf(iso) == CHOOSE r \in Range(loaded.df) : r.iso_alpha = iso

\* C4: an event that only changes the region filter leaves the brush mapping
\* and the highlighted set as they were.
C4_RegionChangeKeepsSelection ==
    [][(\E reg \in CONTINENT_OPTIONS : RegionChange(reg)) =>
          /\ pc_brush' = pc_brush
          /\ selected_iso_store' = selected_iso_store]_vars

\* The columns other than a keep their constraint, or their absence
OthersUnchanged(a) ==
    \A c \in Range(use_cols) \ {a} :
        /\ (c \in DOMAIN pc_brush') = (c \in DOMAIN pc_brush)
        /\ c \in DOMAIN pc_brush => pc_brush'[c] = pc_brush[c]

PassesAll(iso, brush_state) ==
    \A col \in DOMAIN brush_state :
        brush_state[col].shape = "pair" =>
            /\ col \in DOMAIN RowOf(iso).vals
            /\ RowOf(iso).vals[col] >= brush_state[col].lo
            /\ RowOf(iso).vals[col] <= brush_state[col].hi

ExampleBrush == [c \in {"A", "B"} |-> IF c = "A" THEN Pair(0, 10) ELSE Pair(5, 15)]

\* C6: a row is in the brushed set (of the linked table and of analytics)
\* only if, for every constrained axis, its value is non-missing and within
\* [lo, hi] inclusive; with {A:[0,10], B:[5,15]} the row A=5,B=20 (CAN) is
\* excluded, the row A=5,B=10 (USA) is included and the row missing A (FRA)
\* is excluded.
C6_BrushConjunction ==
    /\ \A iso \in Tab.table_rows \cup BrushNames(Base, pc_brush) : PassesAll(iso, pc_brush)
    /\ (pc_brush = ExampleBrush /\ region = "All") =>
          /\ Tab.table_rows \cap {"USA", "CAN", "FRA"} = {"USA"}
          /\ BrushNames(Base, pc_brush) \cap {"USA", "CAN", "FRA"} = {"USA"}

\* C6 witness: the example constraints are active over all rows
C6_Witness ==
    /\ pc_brush = ExampleBrush
    /\ region = "All"
    /\ Tab.table_shown

\* C7 as stated: with no constraint in the brush mapping the listing shows
\* no brushed countries and shows the prompt text.
C7_NoBrushShowsPrompt ==
    DOMAIN pc_brush = {} => (~Tab.table_shown /\ Tab.prompt)

\* C7 amended: with no constraint in the brush mapping the listing shows no
\* brushed countries, and shows the prompt text exactly when no highlighted
\* country is among the region's rows; an all-true mask produced by stored
\* [lo, hi] constraints over a non-empty row set is shown as a brushed list
\* of all these rows.
C7_NoBrushDistinctFromAllPass ==
    LET sub == DropNaWithContinent(Base, Range(use_cols))
    IN  /\ DOMAIN pc_brush = {} =>
              /\ ~Tab.table_shown
              /\ Tab.table_rows = {}
              /\ BrushNames(Base, pc_brush) = {}
              /\ Tab.prompt = (IsoOf(Base) \cap selected_iso_store = {})
        /\ (/\ \E c \in DOMAIN pc_brush : pc_brush[c].shape = "pair"
            /\ sub # <<>>
            /\ \A iso \in IsoOf(sub) : PassesAll(iso, pc_brush)) =>
              /\ Tab.table_shown
              /\ Tab.table_rows = IsoOf(sub)

\* C7 witness: the brush was cleared after a drag, a highlighted country is
\* listed, neither a brushed list nor the prompt is shown
C7_Witness ==
    /\ DOMAIN pc_brush = {}
    /\ pc_restyle # NoRestyle
    /\ Tab.selected = {"United States"}
    /\ ~Tab.table_shown
    /\ ~Tab.prompt

\* The views that are recomputed from the current inputs
Map == render_map(ind, region, selected_iso_store)
Pca == pca_view(region, selected_iso_store, update_pca_params(region))
Corr == update_corr_matrix(region)

\* Rows drawn by some view, and rows drawn as highlighted by some view
RenderedRows ==
    Map.rows \cup Range(rank_fig.rows) \cup scatter_fig.rows \cup parcoords_fig.rows
        \cup Tab.table_rows \cup Pca.rows
        \cup {r.iso_alpha : r \in {x \in Range(loaded.df) : x._country_fixed \in Tab.selected}}

\* C8: every view takes its rows from the region-filtered rows, and every
\* view that marks highlights marks exactly its rows whose ISO-3 code is in
\* the highlighted set.
C8_ViewsAgreeOnHighlights ==
    LET R == IsoOf(Base)
        H == selected_iso_store
    IN  /\ Map.rows \subseteq R /\ Map.sel = Map.rows \cap H
        /\ Range(rank_fig.rows) \subseteq R
        /\ rank_fig.is_sel = Range(rank_fig.rows) \cap H
        /\ scatter_fig.rows \subseteq R
        /\ scatter_fig.is_sel = scatter_fig.rows \cap H
        /\ parcoords_fig.rows \subseteq R
        /\ parcoords_fig.color = parcoords_fig.rows \cap H
        /\ Tab.table_rows \subseteq R
        /\ Tab.table_sel = Tab.table_rows \cap H
        /\ Tab.selected = {ISO_TO_NAME[i] : i \in R \cap H}
        /\ Pca.rows \subseteq R /\ Pca.sel = Pca.rows \cap H
        /\ Corr = R

\* C9: a region change keeps the highlighted set; a highlighted code outside
\* the filtered region is rendered by no view; a highlighted code inside the
\* filtered region is rendered highlighted (on the map) with no further click.
C9_CrossRegionSelection ==
    /\ [](\A c \in selected_iso_store :
            IF c \in IsoOf(Base) THEN c \in Map.sel ELSE c \notin RenderedRows)
    /\ [][(\E reg \in CONTINENT_OPTIONS : RegionChange(reg)) =>
             selected_iso_store' = selected_iso_store]_vars

\* C10: every key of the brush mapping is an indicator of the active table,
\* in the dashboard and in its older copy, where a dataset change drops the
\* keys that are not indicators of the new table.
C10_BrushKeysInActiveTable ==
    /\ DOMAIN pc_brush \subseteq Range(loaded.num_cols)
    /\ DOMAIN copy_brush \subseteq Range(copy_loaded[ds].num_cols)

\* The rows of the source file of dataset d as add_iso_and_continent returns them
Harmonized(d) == annotate(load.prog, load.files[d].rows)

\* Number of rows of df with ISO-3 code c
RowsWith(df, c) == Cardinality({k \in DOMAIN df : df[k].iso_alpha = c})

\* C11: after loading every row of the table has a non-null ISO-3 code and
\* no two rows share a code; a merge step neither removes nor duplicates a
\* table row that has no auxiliary match, and adds no row for an auxiliary
\* row that matches nothing.
C11_UniqueNonNullIso ==
    /\ [](load.pc = "done" =>
            \A d \in DOMAIN load.loaded :
                LET df == load.loaded[d].df
                IN  \A i \in DOMAIN df :
                        /\ df[i].iso_alpha # None
                        /\ \A j \in DOMAIN df : i # j => df[i].iso_alpha # df[j].iso_alpha)
    /\ [][\A aux \in {"geo", "gov"} :
            ((aux = "geo" /\ LoadMergeGeography) \/ (aux = "gov" /\ LoadMergeGovernment)) =>
                /\ IsoOf(load'.df) = IsoOf(load.df)
                /\ \A r \in Range(load.df) :
                      Matches(upper(r.Country), load[aux].rows) = <<>> =>
                          RowsWith(load'.df, r.iso_alpha) = RowsWith(load.df, r.iso_alpha)]_vars

\* The values of a loaded row that come from the source file
SourceVals(r) == [c \in DOMAIN r.vals \ {"Area_Total"} |-> r.vals[c]]

\* C12: whenever two or more source rows resolve to the same ISO-3 code and
\* their counts of non-missing values differ, the loaded table has exactly
\* one row for that code, and it is a source row with the largest count.
C12_DedupKeepsMostData ==
    load.pc = "done" =>
        \A d \in DOMAIN load.loaded \ {"Demo"} :
            LET src == Harmonized(d)
                df == load.loaded[d].df
            IN  \A c \in IsoOf(src) \ {None} :
                    LET same == {i \in DOMAIN src : src[i].iso_alpha = c}
                    IN  (\E i, j \in same : data_count(src[i]) # data_count(src[j])) =>
                            /\ RowsWith(df, c) = 1
                            /\ \A k \in DOMAIN df :
                                  df[k].iso_alpha = c =>
                                      \E i \in same :
                                          /\ \A j \in same : data_count(src[i]) >= data_count(src[j])
                                          /\ df[k].Country = src[i].Country
                                          /\ SourceVals(df[k]) = src[i].vals

\* The characters of t are those of s, title-cased
IsTitleCased(t, s) ==
    /\ Len(t) = Len(s)
    /\ \A i \in DOMAIN s :
          /\ UpperOf(t[i]) = UpperOf(s[i])
          /\ IsLetter(s[i]) =>
                IF i = 1 \/ ~IsLetter(s[i - 1]) THEN IsUpper(t[i]) ELSE IsLower(t[i])

\* C13: a raw name that, trimmed and upper-cased, is a key of the fix table
\* is harmonized to the canonical name of that key; every other raw name is
\* harmonized to its title-cased form.
C13_HarmonizeUsesFixTable ==
    (call.fn = "harmonize" /\ call.done) =>
        LET key == upper(strip(call.arg))
        IN  IF key \in DOMAIN CIA_NAME_FIXES
            THEN call.out = CIA_NAME_FIXES[key]
            ELSE IsTitleCased(call.out, strip(call.arg))

\* C13 witness: a lower-case spelling with a leading blank was mapped to the
\* canonical name of its key
C13_Witness ==
    call.fn = "harmonize" /\ call.done /\ call.arg = burma_ /\ call.out = Myanmar

\* unmatched = df[df["iso_alpha"].isna()]["_country_fixed"].unique(), the
\* names the note under the map lists
UnmatchedNote(df) == {r._country_fixed : r \in {x \in Range(df) : x.iso_alpha = None}}

\* C14: a source row whose name resolves to no ISO-3 code is left out of the
\* loaded table, the load completes with the other rows, and the note under
\* the map reports as many unmatched names as there were.
C14_UnmatchedExcludedAndCounted ==
    (load.pc = "done" /\ load.prog = "cia_v1" /\ load.files[DATASETS[1]].exists) =>
        LET src == Harmonized(DATASETS[1])
            df == load.loaded[DATASETS[1]].df
        IN  /\ DATASETS[1] \in DOMAIN load.loaded
            /\ IsoOf(df) = IsoOf(src) \ {None}
            /\ Cardinality(UnmatchedNote(df)) = Cardinality(MissingIso(src))

INHABITED == {"Africa", "Asia", "Europe", "North America", "South America", "Oceania"}

\* C15: the continent of every loaded record is one of the six inhabited
\* continents or None.
C15_ContinentInhabitedOrNone ==
    load.pc = "done" =>
        \A d \in DOMAIN load.loaded :
            \A r \in Range(load.loaded[d].df) : r.continent \in INHABITED \cup {None}

Ranked(df, indicator) == {r \in Range(df) : indicator \in DOMAIN r.vals}
ValueOf(df, indicator, iso) ==
    (CHOOSE r \in Ranked(df, indicator) : r.iso_alpha = iso).vals[indicator]

\* out lists n rows of the table (all of them when there are fewer) that have
\* a value, no row twice, in descending order of the value, and no row left
\* out has a larger value than a listed one
IsTopN(out, df, indicator, n) ==
    LET have == {r.iso_alpha : r \in Ranked(df, indicator)}
    IN  /\ Len(out) = IF Cardinality(have) < n THEN Cardinality(have) ELSE n
        /\ Range(out) \subseteq have
        /\ \A i, j \in DOMAIN out : i < j =>
              /\ out[i] # out[j]
              /\ ValueOf(df, indicator, out[i]) >= ValueOf(df, indicator, out[j])
        /\ \A a \in have \ Range(out), b \in Range(out) :
              ValueOf(df, indicator, a) <= ValueOf(df, indicator, b)

\* C18 as stated: for a Top-N of N >= 1 the ranking has the N rows with the
\* largest non-missing values in descending order; USA=10, CAN=20, MEX=30 with
\* Top-N 2 gives [MEX, CAN]
C18_RankReturnsRequestedN ==
    (call.fn = "rank" /\ call.done /\ call.topn.kind = "int" /\ call.topn.v >= 1) =>
        /\ IsTopN(call.out, call.df, call.ind, call.topn.v)
        /\ (call.df = RankExample /\ call.topn.v = 2) => call.out = <<"MEX", "CAN">>

\* C18 amended: for an integer Top-N the ranking has the N' rows with the
\* largest non-missing values in descending order, N' being N restricted to
\* 3..50; USA=10, CAN=20, MEX=30 with Top-N 2 gives [MEX, CAN, USA]
C18_RankReturnsEffectiveN ==
    (call.fn = "rank" /\ call.done /\ call.topn.kind = "int" /\ call.topn.v >= 1) =>
        LET v == call.topn.v
            eff == IF v < 3 THEN 3 ELSE IF v > 50 THEN 50 ELSE v
        IN  /\ IsTopN(call.out, call.df, call.ind, eff)
            /\ (call.df = RankExample /\ v = 2) => call.out = <<"MEX", "CAN", "USA">>

\* The ranking of five rows with Top-N 3 lists three of them
C18_Witness ==
    /\ call.fn = "rank" /\ call.done
    /\ call.topn = TopNInt(3) /\ call.df = loaded.df /\ call.ind = "C"
    /\ call.out = <<"DEU", "FRA", "XKX">>

\* Indicators of the request that have two different values in the table
Requested == IF call.pca_params # {} THEN call.pca_params \cap call.num_cols
             ELSE call.num_cols
Retained == IF Len(call.base) >= 2 THEN Requested \cap {"V1", "V2", "V3"} ELSE {}

\* C19: the projection reports insufficient data exactly when fewer than 3
\* rows, or fewer than 2 indicators after dropping the all-null and the
\* zero-variance columns, remain; 3 or more rows with exactly 2 indicators of
\* non-zero variance give a projection
C19_InsufficientDataExactly ==
    (call.fn = "pca" /\ call.done) =>
        /\ (call.out.title # PCA_OK) <=>
              (Len(call.base) < 3 \/ Cardinality(Retained) < 2)
        /\ (Len(call.base) >= 3 /\ Cardinality(Retained) = 2) => call.out.title = PCA_OK

\* The integer nearest to the square root of n
round_sqrt(n) ==
    CHOOSE r \in 0..n : (2 * r - 1) * (2 * r - 1) <= 4 * n /\ 4 * n < (2 * r + 1) * (2 * r + 1)

\* C20: for every row count n >= 3 the number of clusters of a projection is
\* the integer nearest to sqrt(n), limited to 2..5
C20_ClustersRoundSqrt ==
    (call.fn = "pca" /\ call.done /\ call.out.title = PCA_OK) =>
        LET r == round_sqrt(Len(call.base))
        IN  call.out.k = IF r < 2 THEN 2 ELSE IF r > 5 THEN 5 ELSE r

Computed(trigger_id) ==
    analytics(trigger_id, ind', region', topn', scatter_x', scatter_y', pc_restyle',
              selected_iso_store', pc_brush)

\* C22: a failure while one chart is computed does not keep the other charts
\* from rendering nor the brush state from being stored: a drag stores the
\* mapping parsed from its payload, and a click redraws the rank bars and the
\* scatter plot with the new highlights, also when the evaluation of the
\* brushed rows of the parallel-coordinates chart fails
C22_ChartFailureIsolated ==
    /\ [][\A p \in RestylePayloads : Restyle(p) => pc_brush' = Computed("parcoords").brush]_vars
    /\ [][\A view \in ClickViews, iso \in ClickedIsos \cup {None} :
             Click(view, iso) =>
                 /\ rank_fig' = Computed("selected-iso").rank
                 /\ scatter_fig' = Computed("selected-iso").scatter]_vars

\* C23: pressing the reset button clears the click selection (the last
\* clicked and the highlighted countries) and all parallel-coordinates brushes
C23_ResetClearsSelectionAndBrush ==
    [][CopyReset => /\ copy_brush' = EmptyBrush
                    /\ selected_iso_store' = {}
                    /\ highlight_country_names' = {}
                    /\ selected_iso' = None]_vars

\* An event that is neither an axis drag nor a reset
NonDragEvent ==
    \/ \E view \in ClickViews, iso \in ClickedIsos \cup {None} : Click(view, iso)
    \/ \E reg \in CONTINENT_OPTIONS : RegionChange(reg)
    \/ \E c \in IndChoices : IndChange(c)
    \/ \E c \in ScatterChoices : ScatterXChange(c) \/ ScatterYChange(c)
    \/ \E n \in TopNInputs : TopNChange(n)

\* C24: the brush mapping changes only on an axis drag or a reset: a region,
\* indicator, Top-N or scatter-axis change or a country click leaves it as it
\* is, so that after a reset it stays empty, and a constraint cleared on one
\* axis stays cleared, until the next drag
C24_BrushChangesOnlyOnDrag ==
    [][NonDragEvent => pc_brush' = pc_brush]_vars

\* C25: a click is resolved to one ISO-3 code, and the change of the
\* highlighted set depends on this code only, not on the component clicked:
\* in the older copy a click on the map and a click on the scatter plot that
\* resolve to the same code both toggle this code
C25_ClickSourceIrrelevant ==
    [][\A iso \in ClickedIsos :
          (CopyMapClick(iso) \/ CopyScatterClick(iso)) =>
              selected_iso_store' = Toggle(selected_iso_store, iso)]_vars

\* At least one [lo, hi] constraint is stored, and nothing of another shape
ActiveConstraints ==
    /\ DOMAIN pc_brush # {}
    /\ \A c \in DOMAIN pc_brush : pc_brush[c].shape = "pair"

\* C26: with at least one active constraint, a row of the region whose value
\* on every constrained axis is non-missing and within [lo, hi] is in the
\* brushed set (of analytics and of the linked table), whatever its values on
\* the unconstrained axes, missing or not
C26_PassingRowIsBrushed ==
    ActiveConstraints =>
        \A iso \in IsoOf(Base) :
            PassesAll(iso, pc_brush) =>
                /\ iso \in BrushNames(Base, pc_brush)
                /\ iso \in Tab.table_rows

\* C27: the countries of the linked table are the rows drawn in the
\* parallel-coordinates plot that satisfy all brush constraints
C27_TableEqualsBrushedLines ==
    ActiveConstraints =>
        Tab.table_rows = {iso \in ParcoordsFigure(Base, selected_iso_store, pc_brush).rows :
                             PassesAll(iso, pc_brush)}

\* A payload that names an axis of the plot and carries a range or a cleared brush
WellShaped(p) ==
    /\ p.key = "constraintrange"
    /\ p.idx \in 0 .. (Len(use_cols) - 1)
    /\ p.shape \in {"flat", "wrapped", "null", "empty"}

\* C28: every value stored in the brush mapping is a two-element numeric
\* range; a drag whose payload has another shape (several ranges, another
\* length, entries that are no numbers, axis index out of range) leaves the
\* mapping unchanged, and the evaluation of the brush does not fail on it
C28_OnlyRangesStored ==
    /\ [](\A c \in DOMAIN pc_brush : pc_brush[c].shape = "pair")
    /\ [](~AnalyticsRaises(Base, ParseBrush(pc_brush, pc_restyle)))
    /\ [][\A p \in ShapePayloads :
             (Restyle(p) /\ ~WellShaped(p)) => pc_brush' = pc_brush]_vars

\* C29: the highlighted-names store holds exactly the names of the codes of
\* the highlighted store that have a name in the table
C29_NamesFollowCodes ==
    highlight_country_names =
        {r._country_fixed : r \in {x \in Range(loaded.df) : x.iso_alpha \in selected_iso_store}}

\* C29 witness: USA was toggled on and off again while FRA stayed highlighted
C29_Witness ==
    /\ click_run.n = 2 /\ click_run.iso = "USA"
    /\ selected_iso_store = {"FRA"}
    /\ highlight_country_names = {"France"}

\* The step that runs the last callback of the click in flight
ClickCompletes ==
    IF call.fn = "click" THEN call.pending # {} /\ call'.pending = {} ELSE FALSE

\* C30: events are handled one at a time and every store has one writer:
\* when the callbacks of a click have run, in whatever order, the highlighted
\* set, the last-clicked code and the brush mapping are those of the serial
\* order; the highlighted set is the set the earlier events left, with the
\* clicked code toggled; and the brush mapping is the one the earlier events
\* left
C30_ClickOrderIrrelevant ==
    /\ [][ClickCompletes =>
             /\ selected_iso_store' = call.serial.isos
             /\ selected_iso' = call.serial.iso
             /\ pc_brush' = call.serial.brush]_vars
    /\ [][ClickCompletes =>
             selected_iso_store' =
                 IF call.iso = None THEN call.isos0
                 ELSE IF call.iso \in call.isos0 THEN call.isos0 \ {call.iso}
                 ELSE call.isos0 \cup {call.iso}]_vars
    /\ [][ClickCompletes => pc_brush' = call.brush0]_vars

====
